---------------------------- MODULE Spec2Model ----------------------------
(***************************************************************************)
(* Model of the AP2 sample agents (samples/python/src/roles):              *)
(*   - the credentials provider's token table (account_manager.py);        *)
(*   - the merchant payment processor's initiate_payment tool and its      *)
(*     challenge-response sub-protocol (merchant_payment_processor_agent); *)
(*   - the merchant's initiate_payment tool, which forwards a purchase to  *)
(*     the payment processor and mirrors the processor's task;             *)
(*   - the merchant's cart store, find_items_workflow and update_cart      *)
(*     (merchant_agent).                                                   *)
(*                                                                         *)
(* Python values that may be None or a string are modelled as tagged       *)
(* tuples (PyNone, PyStr(s)) so that None, "" and non-empty strings are    *)
(* three different values, as they are for Python's `==` and truthiness.   *)
(***************************************************************************)
EXTENDS Integers, Sequences, FiniteSets, TLC

VARIABLES
  _token,      \* account_manager._token: token -> entry
  last,        \* the most recent account_manager call: arguments, outcome,
               \* and the table it ran on (history)
  firstBind,   \* token -> the first value update_token wrote to it (history)
  returned,    \* the tokens returned by create_token, in call order (history)
  ptask,       \* the payment processor's task of one payment (no task yet:
               \* state "none"); the tool reads and writes no other state
  req,         \* the initiate_payment invocations in flight, by slot
  fin,         \* the invocation that finished in the last step, if one did
  nextPaymentId, \* stands for uuid.uuid4(): the next unused payment id
  mismatched,  \* whether the task has been answered an incorrect challenge
               \* response so far (history; the code keeps no such state)
  carts,       \* the merchant's cart store: cart id -> CartMandate object
  risk_store,  \* the merchant's risk data store: context id -> risk data
  find,        \* the find_items_workflow run in flight in each context
  cfin,        \* the merchant cart operation that finished in the last step
  mtask,       \* the merchant's task of one purchase (initiate_payment), with
               \* the task ids of the messages in its history
  received,    \* the number of requests the merchant's initiate_payment has
               \* received for the purchase (history)
  advertised,  \* the extensions each remote agent's card advertises, by the
               \* name the caller's client gives the agent
  lookup,      \* a call of _get_payment_processor_task_id: its task and
               \* what it returned
  session,     \* the shopper's session state (tool_context.state)
  sfin,        \* the shopper tool call that finished in the last step
  shown        \* the ids of the carts the merchant has returned to the
               \* session in completed tasks (history)

tokenVars == <<_token, last, firstBind, returned>>

merchantVars == <<mtask, received>>

payVars == <<ptask, req, fin, nextPaymentId, mismatched, mtask, received>>

cartVars == <<carts, risk_store, find, cfin>>

cardVars == <<advertised>>

lookupVars == <<lookup>>

shopperVars == <<session, sfin, shown>>

vars ==
  <<_token, last, firstBind, returned, ptask, req, fin, nextPaymentId,
    mismatched, carts, risk_store, find, cfin, mtask, received, advertised,
    lookup, session, sfin, shown>>

----------------------------------------------------------------------------
(* Bounds of the model *)

MaxTokens == 2      \* number of create_token calls explored

NumReq == 2         \* number of initiate_payment invocations in flight at once

MaxReceipts == 2    \* number of payment receipts (fresh payment ids) explored

MaxPurchaseRequests == 3  \* number of requests to the merchant's initiate_payment

----------------------------------------------------------------------------
(* Python values *)

PyNone == <<"NoneType">>

PyStr(s) == <<"str", s>>

\* Python truthiness of an Optional[str]: None and "" are falsy.
Truthy(v) == v # PyNone /\ v # PyStr("")

\* No exception raised.
NoExc == [type |-> "", msg |-> <<>>]

\* raise ValueError("Invalid token"): the invalid-token error.
InvalidTokenError == [type |-> "ValueError", msg |-> <<"Invalid token">>]

\* raise ValueError(f"Token {token} not found"): the token-not-found error.
TokenNotFoundError(token) ==
  [type |-> "ValueError", msg |-> <<"Token ", token, " not found">>]

\* A dict subscript on a missing key.
KeyError(token) == [type |-> "KeyError", msg |-> <<token>>]

----------------------------------------------------------------------------
(* account_manager.py: the account database *)

\* Aliases are sequences of characters so that casefold() can be computed.
AliasVisa == <<"V", "i", "s", "a">>

AliasJcb == <<"J", "C", "B">>

AliasPay == <<"P", "a", "y">>

\* _account_db, reduced to the fields the token functions read: each account's
\* payment_methods in dict order, each with its type and alias.
_account_db ==
  [e \in {"taro", "hanako"} |->
     IF e = "taro"
       THEN << [type |-> "CARD", alias |-> AliasVisa],
               [type |-> "DIGITAL_WALLET", alias |-> AliasPay] >>
       ELSE << [type |-> "CARD", alias |-> AliasJcb] >>]

\* str.casefold() on one character of the model's alphabet.
FoldChar(c) ==
  CASE c = "V" -> "v"
    [] c = "J" -> "j"
    [] c = "C" -> "c"
    [] c = "B" -> "b"
    [] c = "P" -> "p"
    [] OTHER -> c

casefold(s) == [i \in 1..Len(s) |-> FoldChar(s[i])]

\* _account_db.get(email_address, {}).get("payment_methods", {}).values()
get_account_payment_methods(email_address) ==
  IF email_address \in DOMAIN _account_db
    THEN _account_db[email_address]
    ELSE <<>>

\* The first payment method whose alias matches case-insensitively, in a
\* one-element sequence; <<>> stands for the None result.
get_payment_method_by_alias(email_address, alias) ==
  LET pms == get_account_payment_methods(email_address)
      hits == SelectSeq(pms, LAMBDA pm : casefold(pm.alias) = casefold(alias))
  IN  IF hits = <<>> THEN <<>> ELSE <<hits[1]>>

----------------------------------------------------------------------------
(* account_manager.py: the token functions, as functions of the table *)

TokenPrefix == "fake_payment_credential_token_"

\* f"fake_payment_credential_token_{n}"
TokenName(n) == <<TokenPrefix, n>>

\* Variant: the index is taken one below the table's size.
NewToken_OffByOne(tab) ==
  TokenName(IF DOMAIN tab = {} THEN 0 ELSE Cardinality(DOMAIN tab) - 1)

\* The token string create_token builds from the table's size.
NewToken(tab) == TokenName(Cardinality(DOMAIN tab))

\* create_token: stores a fresh entry under NewToken and returns the token.
create_token(tab, email_address, payment_method_alias) ==
  LET token == NewToken(tab)
      entry == [email_address |-> email_address,
                payment_method_alias |-> payment_method_alias,
                payment_mandate_id |-> PyNone]
  IN  [tab |-> [k \in DOMAIN tab \cup {token} |->
                  IF k = token THEN entry ELSE tab[k]],
       exc |-> NoExc,
       ret |-> <<token>>,
       wrote |-> FALSE]

\* Variant: an unknown token is inserted instead of rejected.
update_token_Upsert(tab, token, payment_mandate_id) ==
  IF token \notin DOMAIN tab
    THEN [tab |-> [k \in DOMAIN tab \cup {token} |->
                     IF k = token
                       THEN [email_address |-> "",
                             payment_method_alias |-> <<>>,
                             payment_mandate_id |-> payment_mandate_id]
                       ELSE tab[k]],
          exc |-> NoExc, ret |-> <<>>, wrote |-> TRUE]
  ELSE IF Truthy(tab[token].payment_mandate_id)
    THEN [tab |-> tab, exc |-> NoExc, ret |-> <<>>, wrote |-> FALSE]
  ELSE [tab |-> [tab EXCEPT ![token].payment_mandate_id = payment_mandate_id],
        exc |-> NoExc, ret |-> <<>>, wrote |-> TRUE]

\* Variant: binding an already bound token is rejected instead of ignored.
update_token_Strict(tab, token, payment_mandate_id) ==
  IF token \notin DOMAIN tab
    THEN [tab |-> tab, exc |-> TokenNotFoundError(token), ret |-> <<>>,
          wrote |-> FALSE]
  ELSE IF Truthy(tab[token].payment_mandate_id)
    THEN [tab |-> tab,
          exc |-> [type |-> "ValueError", msg |-> <<"Token already bound">>],
          ret |-> <<>>, wrote |-> FALSE]
  ELSE [tab |-> [tab EXCEPT ![token].payment_mandate_id = payment_mandate_id],
        exc |-> NoExc, ret |-> <<>>, wrote |-> TRUE]

\* update_token: raises for an unknown token, returns without writing when
\* the stored payment_mandate_id is truthy, else stores the given id.
update_token(tab, token, payment_mandate_id) ==
  IF token \notin DOMAIN tab
    THEN [tab |-> tab, exc |-> TokenNotFoundError(token), ret |-> <<>>,
          wrote |-> FALSE]
  ELSE IF Truthy(tab[token].payment_mandate_id)
    THEN [tab |-> tab, exc |-> NoExc, ret |-> <<>>, wrote |-> FALSE]
  ELSE [tab |-> [tab EXCEPT ![token].payment_mandate_id = payment_mandate_id],
        exc |-> NoExc, ret |-> <<>>, wrote |-> TRUE]

\* Variant: the entry is read with a subscript instead of .get(token, {}).
verify_token_Subscript(tab, token, payment_mandate_id) ==
  IF token \notin DOMAIN tab
    THEN [tab |-> tab, exc |-> KeyError(token), ret |-> <<>>,
          wrote |-> FALSE]
  ELSE IF tab[token].payment_mandate_id # payment_mandate_id
    THEN [tab |-> tab, exc |-> InvalidTokenError, ret |-> <<>>,
          wrote |-> FALSE]
  ELSE [tab |-> tab, exc |-> NoExc,
        ret |-> get_payment_method_by_alias(tab[token].email_address,
                                            tab[token].payment_method_alias),
        wrote |-> FALSE]

\* verify_token: raises "Invalid token" when the token is unknown or the
\* stored payment_mandate_id differs from the supplied one (Python !=), else
\* returns the payment method for the entry's account and alias.
\* Variant: a successful verification uses the token up.
verify_token_Consume(tab, token, payment_mandate_id) ==
  IF token \notin DOMAIN tab
    THEN [tab |-> tab, exc |-> InvalidTokenError, ret |-> <<>>,
          wrote |-> FALSE]
  ELSE IF tab[token].payment_mandate_id # payment_mandate_id
    THEN [tab |-> tab, exc |-> InvalidTokenError, ret |-> <<>>,
          wrote |-> FALSE]
  ELSE [tab |-> [k \in DOMAIN tab \ {token} |-> tab[k]], exc |-> NoExc,
        ret |-> get_payment_method_by_alias(tab[token].email_address,
                                            tab[token].payment_method_alias),
        wrote |-> FALSE]

verify_token(tab, token, payment_mandate_id) ==
  IF token \notin DOMAIN tab
    THEN [tab |-> tab, exc |-> InvalidTokenError, ret |-> <<>>,
          wrote |-> FALSE]
  ELSE IF tab[token].payment_mandate_id # payment_mandate_id
    THEN [tab |-> tab, exc |-> InvalidTokenError, ret |-> <<>>,
          wrote |-> FALSE]
  ELSE [tab |-> tab, exc |-> NoExc,
        ret |-> get_payment_method_by_alias(tab[token].email_address,
                                            tab[token].payment_method_alias),
        wrote |-> FALSE]

----------------------------------------------------------------------------
(* Inputs of the token functions *)

\* Accounts and aliases passed to create_token: known and unknown ones.
CreateArgs ==
  { <<"taro", AliasVisa>>, <<"nobody", AliasJcb>> }

\* Mandate id strings, the empty string included.
MandateIdStrings == { PyStr(""), PyStr("pm_A"), PyStr("pm_B") }

\* Values supplied as payment_mandate_id to verify_token.
VerifyIds == MandateIdStrings \cup {PyNone}

\* Token strings callers present: every token create_token can return within
\* the bound, and one it never returns.
TokenArgs ==
  { TokenName(n) : n \in 0..MaxTokens }

Unset == <<"unset">>

\* The record of one call: its arguments, what it raised or returned, whether
\* it stored a payment_mandate_id, and the table before the call.
CallRecord(op, token, email, alias, pmid, r, pre) ==
  [op |-> op, token |-> token, email |-> email, alias |-> alias,
   pmid |-> pmid, exc |-> r.exc, ret |-> r.ret, wrote |-> r.wrote,
   pre |-> pre]

\* Before any call.
NoCall ==
  [op |-> "none", token |-> <<>>, email |-> "", alias |-> <<>>,
   pmid |-> PyNone, exc |-> NoExc, ret |-> <<>>, wrote |-> FALSE,
   pre |-> <<>>]

----------------------------------------------------------------------------
(* Token table: initial state and actions.  The functions are plain `def`s  *)
(* without an await, called from coroutines of one event loop, so each call *)
(* is one atomic step and concurrent requests interleave whole calls.       *)

TokenInit ==
  /\ _token = <<>>
  /\ last = NoCall
  /\ firstBind = <<>>
  /\ returned = <<>>

CreateToken ==
  \E a \in CreateArgs :
    /\ Len(returned) < MaxTokens
    /\ LET r == create_token(_token, a[1], a[2])
           t == r.ret[1]
       IN  /\ _token' = r.tab
           /\ last' = CallRecord("create_token", t, a[1], a[2],
                                            PyNone, r, _token)
           /\ firstBind' = [k \in DOMAIN r.tab |->
                              IF k \in DOMAIN firstBind /\ k # t
                                THEN firstBind[k] ELSE Unset]
           /\ returned' = Append(returned, t)
           /\ UNCHANGED <<payVars, cartVars, cardVars, lookupVars, shopperVars>>

UpdateToken ==
  \E t \in TokenArgs, m \in MandateIdStrings :
    LET r == update_token(_token, t, m)
    IN  /\ _token' = r.tab
        /\ last' = CallRecord("update_token", t, "", <<>>, m, r,
                                         _token)
        /\ firstBind' = [k \in DOMAIN r.tab |->
                           IF k \notin DOMAIN firstBind THEN Unset
                           ELSE IF k = t /\ r.wrote /\ firstBind[k] = Unset
                             THEN m
                           ELSE firstBind[k]]
        /\ UNCHANGED <<returned, payVars, cartVars, cardVars, lookupVars, shopperVars>>

VerifyToken ==
  \E t \in TokenArgs, m \in VerifyIds :
    LET r == verify_token(_token, t, m)
    IN  /\ _token' = r.tab
        /\ last' = CallRecord("verify_token", t, "", <<>>, m, r,
                                         _token)
        /\ firstBind' = [k \in DOMAIN r.tab |->
                           IF k \in DOMAIN firstBind THEN firstBind[k]
                           ELSE Unset]
        /\ UNCHANGED <<returned, payVars, cartVars, cardVars, lookupVars, shopperVars>>

----------------------------------------------------------------------------
(* merchant_payment_processor_agent/tools.py: messages, parts, artifacts *)

\* Part(root=TextPart(text=...))
TextPart(text) == [kind |-> "text", key |-> "", value |-> text]

\* Part(root=DataPart(data={key: value}))
DataPart(key, value) == [kind |-> "data", key |-> key, value |-> value]

\* _create_text_parts(*texts) for one text.
_create_text_parts(text) == << TextPart(text) >>

\* The canonical data key of a PaymentReceipt (imported constant).
PAYMENT_RECEIPT_DATA_KEY == "PAYMENT_RECEIPT_DATA_KEY"

\* The challenge descriptor of _raise_challenge (display text abridged).
challenge_data ==
  [type |-> "otp",
   display_text |-> "The issuer sent a code to your phone (demo hint: 123)"]

\* The message _raise_challenge attaches to input_required.
ChallengeMessage ==
  << TextPart("Please provide the challenge response to complete the payment."),
     DataPart("challenge", challenge_data) >>

\* TaskUpdater.requires_input(message)
requires_input(task, message) ==
  [task EXCEPT !.state = "input_required", !.message = message]

\* TaskUpdater.failed(message)
failed(task, message) ==
  [task EXCEPT !.state = "failed", !.message = message]

\* TaskUpdater.complete(message)
complete(task, message) ==
  [task EXCEPT !.state = "completed", !.message = message]

\* _fail_task: failed with a one-text-part message.
_fail_task(task, error_text) == failed(task, _create_text_parts(error_text))

\* BaseServerExecutor: an exception that leaves the tool fails the task, with
\* the error's text as the message.
ExecutorFailed(task, exc) ==
  failed(task,
    _create_text_parts("An error occurred: "
                         \o (IF exc.msg = <<>> THEN exc.type ELSE exc.msg[1])))

\* Variant: the artifact is not stored.
add_artifact_Dropped(task, parts) == task

\* TaskUpdater.add_artifact(parts): one more artifact holding the parts.
add_artifact(task, parts) ==
  [task EXCEPT !.artifacts = Append(@, parts)]

\* Variant: the challenge is announced without its descriptor.
_raise_challenge_TextOnly(task) ==
  requires_input(task,
    _create_text_parts(
      "Please provide the challenge response to complete the payment."))

\* _raise_challenge: input_required with the challenge message.
_raise_challenge(task) == requires_input(task, ChallengeMessage)

\* Variant: an empty response is rejected but any other one is accepted.
_challenge_response_is_valid_NonEmpty(challenge_response) ==
  challenge_response # ""

\* _challenge_response_is_valid
_challenge_response_is_valid(challenge_response) ==
  challenge_response = "123"

\* message_utils.find_data_part("challenge_response", data_parts) or ""
ChallengeResponseOrEmpty(found) == IF Truthy(found) THEN found[2] ELSE ""

\* Variant: the receipt's amount is left at zero.
_create_payment_receipt_ZeroAmount(payment_mandate, payment_id) ==
  [payment_mandate_id |-> payment_mandate.payment_mandate_id,
   payment_id |-> payment_id,
   amount |-> 0,
   payment_status |-> [merchant_confirmation_id |-> payment_id,
                       psp_confirmation_id |-> payment_id],
   payment_method_details |-> [method_name |-> payment_mandate.method_name]]

\* _create_payment_receipt, with payment_id standing for uuid.uuid4().hex
\* (the timestamp is left out).
_create_payment_receipt(payment_mandate, payment_id) ==
  [payment_mandate_id |-> payment_mandate.payment_mandate_id,
   payment_id |-> payment_id,
   amount |-> payment_mandate.amount,
   payment_status |-> [merchant_confirmation_id |-> payment_id,
                       psp_confirmation_id |-> payment_id],
   payment_method_details |-> [method_name |-> payment_mandate.method_name]]

\* The artifact _complete_payment attaches: one data part with the receipt.
ReceiptArtifact(payment_receipt) ==
  << DataPart(PAYMENT_RECEIPT_DATA_KEY, payment_receipt) >>

----------------------------------------------------------------------------
(* Inputs of the processor's initiate_payment *)

\* What find_data_part(PAYMENT_MANDATE_DATA_KEY, data_parts) yields: nothing,
\* a dict model_validate rejects, or a PaymentMandate.  has_token tells
\* whether payment_response.details carries a "token" object.
Mandate(present, valid, id, amount, has_token) ==
  [present |-> present, valid |-> valid, payment_mandate_id |-> id,
   amount |-> amount, method_name |-> "CARD", has_token |-> has_token]

MandateInputs ==
  { Mandate(FALSE, FALSE, "", 0, FALSE),
    Mandate(TRUE, FALSE, "", 0, FALSE),
    Mandate(TRUE, TRUE, "pm_A", 1750, TRUE),
    Mandate(TRUE, TRUE, "pm_B", 900, FALSE) }

\* What the request to the merchant carries as its PaymentMandate part:
\* nothing, a malformed part, or a mandate, of a payment method with or
\* without a processor.
MerchantMandateInputs ==
  { Mandate(FALSE, FALSE, "", 0, FALSE),
    Mandate(TRUE, FALSE, "", 0, FALSE),
    Mandate(TRUE, TRUE, "pm_C", 2400, TRUE),
    [Mandate(TRUE, TRUE, "pm_C", 2400, TRUE) EXCEPT !.method_name = "BANK"] }

\* common.a2a_extension_utils.EXTENSION_URI, the identifier of the AP2
\* extension.
EXTENSION_URI == "ap2_extension_uri"

\* The client the merchant's initiate_payment builds for the processor.
payment_processor_agent ==
  [name |-> "payment_processor_agent", required_extensions |-> {EXTENSION_URI}]

\* Variant: the client for the credentials provider requires no extension.
_get_credentials_provider_client_NoExtensions ==
  [name |-> "credentials_provider", required_extensions |-> {}]

\* _get_credentials_provider_client, once the token object is found.
_get_credentials_provider_client ==
  [name |-> "credentials_provider", required_extensions |-> {EXTENSION_URI}]

\* The agents called remotely, and what the card of one may advertise.
RemoteAgents == {"payment_processor_agent", "credentials_provider"}

AdvertisedInputs == SUBSET {EXTENSION_URI}

\* PaymentRemoteA2aClient.send_a2a_message sends only to an agent whose card
\* advertises every required extension; otherwise it raises
\* UnsupportedExtensionError.
Negotiated(client) ==
  client.required_extensions \subseteq advertised[client.name]

\* What find_data_part("challenge_response", data_parts) yields.
ChallengeInputs == { PyNone, PyStr(""), PyStr("123"), PyStr("000") }

\* How a call to the credentials provider ends: a task with artifacts, a task
\* without, or send_a2a_message raising.
RemoteOutcomes == { "artifacts", "no_artifacts", "error" }

\* An invocation slot that holds no invocation.  An invocation records its
\* position (pc), current_task's state on arrival (cur, "none" for None), its
\* inputs, the messages it sent to the credentials provider and how those
\* calls ended, the receipt it created, the receipt data it sent to the
\* credentials provider, the number of artifacts it attached,
\* the number of status updates made on its updater, and at its end the
\* exception it raised and the task as the caller gets it.
\* An invocation of the merchant's initiate_payment (via "merchant") holds
\* this record for its call of the processor, and in addition the state of
\* the merchant's current_task on arrival (mstate), the risk_data part of its
\* request, the processor task id it
\* finds in that task's history (ptid), the message it forwards (fwd) and the
\* task the processor returns (ptaskret).
IdleReq ==
  [pc |-> "idle", cur |-> "none",
   mandate |-> Mandate(FALSE, FALSE, "", 0, FALSE), cr |-> "",
   exc |-> NoExc, sent |-> <<>>, replies |-> <<>>, receipt |-> <<>>,
   sent_receipt |-> <<>>, added |-> 0, status_updates |-> 0, ret |-> <<>>,
   via |-> "direct", mstate |-> "none", risk_data |-> PyNone,
   ptid |-> <<>>, fwd |-> <<>>, ptaskret |-> <<>>]

\* The merchant's task before the first request of the purchase.  `history`
\* holds the task ids of the task's messages, which is all the merchant reads
\* of them.
NoMerchantTask ==
  [state |-> "none", message |-> <<>>, artifacts |-> <<>>, history |-> <<>>]

\* Before the first request there is no task.
NoTask == [state |-> "none", message |-> <<>>, artifacts |-> <<>>]

\* The task the server opens for a request without a task id.
NewTask == [state |-> "submitted", message |-> <<>>, artifacts |-> <<>>]

Reqs == 1..NumReq

\* The slots without slot r's invocation: the invocations still in flight
\* move to the lowest slots, in their order (slots are interchangeable).
Vacated(r) ==
  LET live == SelectSeq([i \in Reqs |-> IF i = r THEN IdleReq ELSE req[i]],
                        LAMBDA q : q.pc # "idle")
  IN  [i \in Reqs |-> IF i <= Len(live) THEN live[i] ELSE IdleReq]

\* The slot a new invocation takes: the lowest free one (slots are
\* interchangeable).
FreeSlot(r) ==
  /\ req[r].pc = "idle"
  /\ \A r2 \in Reqs : r2 < r => req[r2].pc # "idle"

----------------------------------------------------------------------------
(* Processor: initial state and actions.  An invocation runs from one await  *)
(* on the credentials provider to the next; other invocations interleave at  *)
(* these points.  The request's data parts are read when the tool runs, so   *)
(* they are drawn there; current_task is what the server read on arrival.    *)

PayInit ==
  /\ ptask = NoTask
  /\ req = [r \in Reqs |-> IdleReq]
  /\ fin = IdleReq
  /\ nextPaymentId = 1
  /\ mismatched = FALSE
  /\ mtask = NoMerchantTask
  /\ received = 0

\* The request without a task id arrives: current_task is None and the
\* updater writes to the task opened for this request.
ReceiveNew(r) ==
  /\ FreeSlot(r)
  /\ ptask.state = "none"
  /\ ptask' = NewTask
  /\ req' = [req EXCEPT ![r] = [IdleReq EXCEPT !.pc = "called", !.cur = "none"]]
  /\ fin' = IdleReq
  /\ UNCHANGED <<nextPaymentId, mismatched, tokenVars, cardVars, lookupVars, shopperVars, cartVars, merchantVars>>

\* A request naming the task arrives, after the task's id was returned to a
\* caller: current_task is the task as stored at this moment.
ReceiveExisting(r) ==
  /\ FreeSlot(r)
  /\ ptask.state \notin {"none", "submitted"}
  /\ req' = [req EXCEPT ![r] =
               [IdleReq EXCEPT !.pc = "called", !.cur = ptask.state]]
  /\ fin' = IdleReq
  /\ UNCHANGED <<ptask, nextPaymentId, mismatched, tokenVars, cardVars, lookupVars, shopperVars, cartVars, merchantVars>>

\* The invocation has made one more status update on its updater
\* (requires_input, failed or complete).
Updated(q) == [q EXCEPT !.status_updates = @ + 1]

\* The invocation ends: pc, exception, and the task as the caller gets it.
Return(q, pc, exc, t) ==
  [q EXCEPT !.pc = pc, !.exc = exc, !.ret = <<t>>]

\* The processor's invocation is over.  Called directly, its slot is freed and
\* the finished invocation is recorded; called by the merchant, the task it
\* returns reaches the merchant's send_a2a_message.
Finish(r, q) ==
  IF q.via = "merchant"
    THEN /\ req' = [req EXCEPT ![r] =
                     [q EXCEPT !.pc = "m_reply", !.ptaskret = q.ret,
                               !.ret = <<>>]]
         /\ fin' = IdleReq
    ELSE /\ req' = Vacated(r)
         /\ fin' = q

\* The tool raises: the executor fails the task and the invocation is over.
Raise(r, q, exc) ==
  LET t2 == ExecutorFailed(ptask, exc)
  IN  /\ ptask' = t2
      /\ Finish(r, Return(Updated(q), "raised", exc, t2))

\* The invocation reaches lines 158-161: a PaymentMandate that validates, a
\* current_task in input_required and a response that is not valid.
IsMismatch(q) ==
  /\ q.mandate.present
  /\ q.mandate.valid
  /\ q.cur = "input_required"
  /\ ~_challenge_response_is_valid(q.cr)

\* The challenge_response data part the merchant forwards (merchant tools.py
\* lines 205-206): none when its own is empty or absent.
ForwardedResponse(challenge_response) ==
  IF challenge_response = "" THEN PyNone ELSE PyStr(challenge_response)

\* initiate_payment, _handle_payment_mandate and the callees they reach, up
\* to the first call of the credentials provider.  The data parts of a
\* request from the merchant are those the merchant forwarded.
\* Variant: no request is taken for the first one of a payment.
is_new_payment_Never(cur) == FALSE

\* _handle_payment_mandate, line 91: current_task is None
is_new_payment(cur) == cur = "none"

\* Variant: every existing task is taken to await the challenge response.
is_input_required_AnyState(state) == TRUE

\* _handle_payment_mandate, line 95:
\* current_task.status.state == TaskState.input_required
is_input_required(state) == state = "input_required"

InitiatePayment(r) ==
  \E m \in MandateInputs \cup MerchantMandateInputs, c \in ChallengeInputs :
  LET q == [req[r] EXCEPT !.mandate = m, !.cr = ChallengeResponseOrEmpty(c)]
      t == ptask
  IN
  /\ q.pc = "called"
  /\ req[r].via = "direct" => m \in MandateInputs
  /\ req[r].via = "merchant" =>
       ( m = req[r].mandate /\ c = ForwardedResponse(req[r].cr) )
  /\ UNCHANGED <<nextPaymentId, tokenVars, cardVars, lookupVars, shopperVars, cartVars, merchantVars>>
  /\ mismatched' = (mismatched \/ IsMismatch(q))
  /\ IF ~q.mandate.present
       THEN \* lines 55-58
            LET t2 == failed(t, _create_text_parts("Missing payment_mandate."))
            IN  /\ ptask' = t2
                /\ Finish(r, Return(Updated(q), "done", NoExc, t2))
     ELSE IF ~q.mandate.valid
       THEN \* line 64: PaymentMandate.model_validate raises
            Raise(r, q, [type |-> "ValidationError", msg |-> <<>>])
     ELSE IF is_new_payment(q.cur)
       THEN \* lines 91-93
            LET t2 == _raise_challenge(t)
            IN  /\ ptask' = t2
                /\ Finish(r, Return(Updated(q), "done", NoExc, t2))
     ELSE IF is_input_required(q.cur)
       THEN IF _challenge_response_is_valid(q.cr)
              THEN IF ~q.mandate.has_token
                     THEN \* line 295: token_object is None
                          Raise(r, q, [type |-> "AttributeError", msg |-> <<>>])
                   ELSE IF ~Negotiated(_get_credentials_provider_client)
                     THEN \* line 243: send_a2a_message refuses to send
                          Raise(r, q, [type |-> "UnsupportedExtensionError",
                                       msg |-> <<>>])
                     ELSE \* line 243: the credential request is sent
                          /\ ptask' = ptask
                          /\ req' = [req EXCEPT ![r] =
                               [q EXCEPT !.pc = "await_credential",
                                         !.sent = Append(@, "credential_request")]]
                          /\ fin' = IdleReq
              ELSE \* lines 158-161
                   LET t2 == requires_input(t,
                               _create_text_parts("Challenge response incorrect."))
                   IN  /\ ptask' = t2
                       /\ Finish(r, Return(Updated(q), "done", NoExc, t2))
     ELSE \* line 102 is not reached: the function ends without a status
          /\ ptask' = ptask
          /\ Finish(r, Return(q, "done", NoExc, t))

\* Variant: the task's artifacts are not looked at.
has_artifacts_Unchecked(o) == o # "error"

\* _request_payment_credential, lines 245-246: the credentials provider's
\* task has artifacts.
has_artifacts(o) == o = "artifacts"

\* _request_payment_credential resumes with the credentials provider's task,
\* then _create_payment_receipt and the sending of the receipt.
CredentialReply(r) ==
  \E o \in RemoteOutcomes :
    LET q == [req[r] EXCEPT !.replies = Append(@, o)]
    IN
    /\ q.pc = "await_credential"
    /\ o = "artifacts" => nextPaymentId <= MaxReceipts
    /\ UNCHANGED <<mismatched, tokenVars, cardVars, lookupVars, shopperVars, cartVars, merchantVars>>
    /\ IF o = "error"
         THEN /\ Raise(r, q, [type |-> "RemoteCallError", msg |-> <<>>])
              /\ UNCHANGED nextPaymentId
       ELSE IF ~has_artifacts(o)
         THEN \* lines 245-246
              /\ Raise(r, q,
                       [type |-> "ValueError",
                        msg |-> <<"Failed to find the payment method data.">>])
              /\ UNCHANGED nextPaymentId
       ELSE \* lines 193-199
            /\ ptask' = ptask
            /\ req' = [req EXCEPT ![r] =
                 [q EXCEPT !.pc = "await_receipt_ack",
                           !.receipt =
                              <<_create_payment_receipt(q.mandate, nextPaymentId)>>,
                           !.sent_receipt =
                              <<_create_payment_receipt(q.mandate, nextPaymentId)>>,
                           !.sent = Append(@, "payment_receipt")]]
            /\ fin' = IdleReq
            /\ nextPaymentId' = nextPaymentId + 1

\* _send_payment_receipt_to_credentials_provider resumes: the call raised,
\* or it returned (its task is ignored) and the receipt is attached as an
\* artifact (lines 200-206).
ReceiptReply(r) ==
  \E o \in {"returned", "error"} :
    LET q == [req[r] EXCEPT !.replies = Append(@, o)]
    IN
    /\ q.pc = "await_receipt_ack"
    /\ UNCHANGED <<nextPaymentId, mismatched, tokenVars, cardVars, lookupVars, shopperVars, cartVars, merchantVars>>
    /\ IF o = "error"
         THEN Raise(r, q, [type |-> "RemoteCallError", msg |-> <<>>])
         ELSE /\ ptask' = add_artifact(ptask, ReceiptArtifact(q.receipt[1]))
              /\ req' = [req EXCEPT ![r] =
                           [q EXCEPT !.pc = "complete", !.added = @ + 1]]
              /\ fin' = IdleReq

\* lines 207-210: the task is completed with the success message.
Complete(r) ==
  LET q == req[r]
      t2 == complete(ptask, _create_text_parts("{'status': 'success'}"))
  IN  /\ q.pc = "complete"
      /\ ptask' = t2
      /\ Finish(r, Return(Updated(q), "done", NoExc, t2))
      /\ UNCHANGED <<nextPaymentId, mismatched, tokenVars, cardVars, lookupVars, shopperVars, cartVars, merchantVars>>

----------------------------------------------------------------------------
(* merchant_agent/tools.py: initiate_payment.  One purchase: the merchant's   *)
(* task and the processor's task it is forwarded to.  An invocation of the    *)
(* merchant's tool runs to its call of the processor, the processor's         *)
(* invocation runs as above, and the merchant's tool resumes with the task    *)
(* the processor returns.                                                     *)

\* The ids of the two tasks of the purchase, and the context id of both.
MerchantTaskId == "task_merchant"

ProcessorTaskId == "task_processor"

PurchaseContextId == "ctx_1"

\* _PAYMENT_PROCESSORS_BY_PAYMENT_METHOD_TYPE
_PAYMENT_PROCESSORS_BY_PAYMENT_METHOD_TYPE ==
  [ method \in {"CARD"} |->
      "http://localhost:8003/a2a/merchant_payment_processor_agent" ]

\* A message with the given task id joins the task's history.  The history
\* is kept up to its first message of another task, and a run of messages of
\* one task is kept once: _get_payment_processor_task_id reads no more.
RecordMessage(history, task_id) ==
  IF \E i \in 1..Len(history) : history[i] # MerchantTaskId THEN history
  ELSE IF history # <<>> /\ history[Len(history)] = task_id THEN history
  ELSE Append(history, task_id)

\* Variant: the first message of the task's own id is taken.
_get_payment_processor_task_id_OwnId(task_present, history, id) ==
  IF ~task_present THEN PyNone
  ELSE LET own == { i \in 1..Len(history) : history[i] = id }
       IN  IF own = {} THEN PyNone
           ELSE PyStr(history[CHOOSE i \in own : \A j \in own : i <= j])

\* Variant: the last message of another task is taken.
_get_payment_processor_task_id_Last(task_present, history, id) ==
  IF ~task_present THEN PyNone
  ELSE LET other == { i \in 1..Len(history) : history[i] # id }
       IN  IF other = {} THEN PyNone
           ELSE PyStr(history[CHOOSE i \in other : \A j \in other : i >= j])

\* _get_payment_processor_task_id: the task id of the first message in the
\* task's history whose task id is not the task's own; None without a task
\* or without such a message.
_get_payment_processor_task_id(task_present, history, id) ==
  IF ~task_present THEN PyNone
  ELSE LET other == { i \in 1..Len(history) : history[i] # id }
       IN  IF other = {} THEN PyNone
           ELSE PyStr(history[CHOOSE i \in other : \A j \in other : i <= j])

\* Lines 208-210: the task id the outgoing message gets; PyNone when
\* set_task_id is not called.
OutgoingTaskId(payment_processor_task_id) ==
  IF Truthy(payment_processor_task_id)
    THEN payment_processor_task_id
    ELSE PyNone

\* TaskUpdater.update_status(state, message)
update_status(task, state, message) ==
  [task EXCEPT !.state = state, !.message = message]

\* artifact_utils.find_canonical_objects(task.artifacts,
\* PAYMENT_RECEIPT_DATA_KEY, PaymentReceipt): the receipts in the artifacts'
\* data parts, in order.
find_canonical_objects(artifacts) ==
  [ i \in 1..Len(artifacts) |-> artifacts[i][1].value ]

\* What find_data_part("challenge_response", data_parts) or "" yields at the
\* merchant.
MerchantChallengeInputs == { "", "123", "000" }

\* What find_data_part("risk_data", data_parts) yields at the merchant.
RiskDataInputs == { PyNone, PyStr(""), PyStr("fake_risk_data") }

\* Variant: only a request without the part is refused.
RiskDataGiven_NotNone(risk_data) == risk_data # PyNone

\* Lines 167-168: `if not risk_data` does not hold.
RiskDataGiven(risk_data) == Truthy(risk_data)

\* The merchant's invocation ends: its slot is freed and it is recorded.
MFinish(r, q) ==
  /\ req' = Vacated(r)
  /\ fin' = q

\* The merchant's tool raises: the executor fails the merchant's task.
MRaise(r, q, t, exc) ==
  LET t2 == [ExecutorFailed(t, exc) EXCEPT
               !.history = RecordMessage(@, MerchantTaskId)]
  IN  /\ mtask' = t2
      /\ MFinish(r, Return(Updated(q), "raised", exc, t2))

\* _fail_task of the merchant's tool, which then returns.
MFail(r, q, t, error_text) ==
  LET t2 == [_fail_task(t, error_text) EXCEPT
               !.history = RecordMessage(@, MerchantTaskId)]
  IN  /\ mtask' = t2
      /\ MFinish(r, Return(Updated(q), "done", NoExc, t2))

\* A request for the merchant's initiate_payment arrives (the first one of
\* the purchase without a task id, a later one with the merchant task's id,
\* after that id was returned to the caller) and the tool runs up to its call
\* of the processor (lines 160-212); the processor's server takes the
\* forwarded request: without a task id it opens the processor's task, with
\* the processor task's id it reads that task, and a task id it does not know
\* fails the call.
MerchantInitiatePayment(r) ==
  \E m \in MerchantMandateInputs, risk_data \in RiskDataInputs,
     challenge_response \in MerchantChallengeInputs,
     o \in {"delivered", "error"} :
  LET existing == mtask.state # "none"
      q == [IdleReq EXCEPT
              !.via = "merchant", !.mstate = mtask.state, !.mandate = m,
              !.risk_data = risk_data]
      t == IF existing
             THEN [mtask EXCEPT !.history = RecordMessage(@, MerchantTaskId)]
             ELSE [NoMerchantTask EXCEPT !.state = "submitted",
                                         !.history = <<MerchantTaskId>>]
      payment_processor_task_id ==
        _get_payment_processor_task_id(existing, t.history, MerchantTaskId)
      sent == [q EXCEPT
                 !.cr = challenge_response,
                 !.ptid = payment_processor_task_id,
                 !.fwd = << [task_id |-> OutgoingTaskId(payment_processor_task_id),
                             context_id |-> PurchaseContextId,
                             challenge_response |->
                               ForwardedResponse(challenge_response)] >>]
  IN
  /\ FreeSlot(r)
  /\ mtask.state # "submitted"
  /\ received < MaxPurchaseRequests
  /\ received' = received + 1
  /\ UNCHANGED <<nextPaymentId, mismatched, tokenVars, cardVars, lookupVars, shopperVars, cartVars>>
  /\ IF ~m.present
       THEN \* line 160: parse_canonical_object finds no PaymentMandate part
            /\ MRaise(r, q, t, [type |-> "MissingFieldError", msg |-> <<>>])
            /\ UNCHANGED ptask
     ELSE IF ~m.valid
       THEN \* line 160: parse_canonical_object rejects the part
            /\ MRaise(r, q, t, [type |-> "ValidationError", msg |-> <<>>])
            /\ UNCHANGED ptask
     ELSE IF ~RiskDataGiven(risk_data)
       THEN \* lines 167-170
            /\ MFail(r, q, t, "Missing risk_data.")
            /\ UNCHANGED ptask
     ELSE IF m.method_name \notin DOMAIN _PAYMENT_PROCESSORS_BY_PAYMENT_METHOD_TYPE
       THEN \* lines 172-183
            /\ MFail(r, q, t,
                     "No payment processor found for method: " \o m.method_name)
            /\ UNCHANGED ptask
     ELSE IF ~Negotiated(payment_processor_agent)
       THEN \* line 212: send_a2a_message refuses to send
            /\ MRaise(r, sent, t,
                      [type |-> "UnsupportedExtensionError", msg |-> <<>>])
            /\ UNCHANGED ptask
     ELSE IF o = "error"
       THEN \* line 212: send_a2a_message raises
            /\ MRaise(r, sent, t, [type |-> "RemoteCallError", msg |-> <<>>])
            /\ UNCHANGED ptask
     ELSE IF ~Truthy(payment_processor_task_id)
       THEN \* no task id is set: the processor opens a task
            /\ ptask.state = "none"
            /\ ptask' = NewTask
            /\ mtask' = t
            /\ req' = [req EXCEPT ![r] =
                         [sent EXCEPT !.pc = "called", !.cur = "none"]]
            /\ fin' = IdleReq
     ELSE IF payment_processor_task_id = PyStr(ProcessorTaskId)
       THEN \* lines 208-210: the request names the processor's task
            /\ ptask.state \notin {"none", "submitted"}
            /\ UNCHANGED ptask
            /\ mtask' = t
            /\ req' = [req EXCEPT ![r] =
                         [sent EXCEPT !.pc = "called", !.cur = ptask.state]]
            /\ fin' = IdleReq
     ELSE \* the processor has no task of this id
          /\ MRaise(r, sent, t, [type |-> "RemoteCallError", msg |-> <<>>])
          /\ UNCHANGED ptask

\* The merchant's tool resumes with the task the processor returned (lines
\* 214-231): a receipt found in its artifacts is attached to the merchant's
\* task, which then takes the state and the message of the processor's task;
\* artifact_utils.only raises unless the receipts found number one.
MerchantReply(r) ==
  LET q == req[r]
      task == q.ptaskret[1]
      payment_receipts == find_canonical_objects(task.artifacts)
  IN
  /\ q.pc = "m_reply"
  /\ UNCHANGED <<ptask, received, nextPaymentId, mismatched, tokenVars, cardVars, lookupVars, shopperVars, cartVars>>
  /\ IF Len(payment_receipts) > 1
       THEN MRaise(r, q, mtask,
                   [type |-> "AmbiguousResultError", msg |-> <<>>])
       ELSE LET t1 == IF payment_receipts # <<>>
                        THEN add_artifact(mtask,
                               ReceiptArtifact(payment_receipts[1]))
                        ELSE mtask
                t2 == [update_status(t1, task.state, task.message) EXCEPT
                         !.history = RecordMessage(@, ProcessorTaskId)]
            IN  /\ mtask' = t2
                /\ MFinish(r, Return(Updated(q), "done", NoExc, t2))

----------------------------------------------------------------------------
(* merchant_agent: CartMandate objects.  A CartMandate is a graph of pydantic *)
(* objects; update_cart assigns to a field of one of them, so the model keeps *)
(* the PaymentCurrencyAmount objects of a cart by identity: `amounts` holds   *)
(* their values, and an item's `amount` is the index of its object.           *)

\* The canonical data key of a CartMandate (imported constant).
CART_MANDATE_DATA_KEY == "CART_MANDATE_DATA_KEY"

_FAKE_JWT == "eyJhbGciOiJSUzI1NiIsImtpZIwMjQwOTA..."

\* f"cart_{item_count}"
CartId(item_count) == <<"cart_", item_count>>

\* features_label, for labels without the keywords _infer_product_features
\* looks for: it then depends on item_count only (text abridged).
FeaturesLabel(item_count) ==
  CASE item_count = 1 -> "features: price=mid / absorbency=normal / leak=standard"
    [] item_count = 2 -> "features: price=low / absorbency=normal / leak=standard"
    [] OTHER -> "features: price=high / absorbency=normal / leak=standard"

\* The CartMandate _create_and_add_cart_mandate_artifact builds.  The feature
\* item's amount is a copy of item.amount with value 0 (model_copy); the
\* total is built with amount=item.amount, and pydantic keeps a model instance
\* given for a field as it is, so the total's amount is the same object as
\* the first display item's amount.
NewCartMandate(item, item_count) ==
  [id |-> CartId(item_count),
   amounts |-> << item.value, 0 >>,
   display_items |-> << [label |-> item.label, amount |-> 1],
                        [label |-> FeaturesLabel(item_count), amount |-> 2] >>,
   total |-> [label |-> "Total", amount |-> 1],
   shipping_address |-> <<>>,
   merchant_authorization |-> PyNone]

\* cart_mandate.model_dump(): the values, without object identity.
model_dump(cart_mandate) ==
  [id |-> cart_mandate.id,
   display_items |->
     [i \in 1..Len(cart_mandate.display_items) |->
        [label |-> cart_mandate.display_items[i].label,
         amount |-> cart_mandate.amounts[cart_mandate.display_items[i].amount]]],
   total |-> [label |-> cart_mandate.total.label,
              amount |-> cart_mandate.amounts[cart_mandate.total.amount]],
   shipping_address |-> cart_mandate.shipping_address,
   merchant_authorization |-> cart_mandate.merchant_authorization]

\* Python's sum() over a sequence of numbers.
sum(values) ==
  LET partial[i \in 0..Len(values)] ==
        IF i = 0 THEN 0 ELSE partial[i - 1] + values[i]
  IN  partial[Len(values)]

\* update_cart, lines 99-129: the address is set, two PaymentItems (Shipping
\* 400, Tax 350) with new amount objects are appended to display_items, the
\* sum of the display items' values is assigned to the value of the total's
\* amount object, and the merchant authorization is set.
WithShippingAndTax(cart_mandate, address) ==
  LET n == Len(cart_mandate.amounts)
      amounts == cart_mandate.amounts \o <<400, 350>>
      display_items ==
        cart_mandate.display_items
          \o << [label |-> "Shipping", amount |-> n + 1],
                [label |-> "Tax", amount |-> n + 2] >>
      total_value ==
        sum([i \in 1..Len(display_items) |-> amounts[display_items[i].amount]])
  IN  [cart_mandate EXCEPT
         !.shipping_address = <<address>>,
         !.display_items = display_items,
         !.amounts = [amounts EXCEPT ![cart_mandate.total.amount] = total_value],
         !.merchant_authorization = PyStr(_FAKE_JWT)]

----------------------------------------------------------------------------
(* merchant_agent: the stores (storage module) and update_cart *)

\* storage.get_cart_mandate(cart_id): the stored object, <<>> for None.
get_cart_mandate(store, cart_id) ==
  IF cart_id \in DOMAIN store THEN <<store[cart_id]>> ELSE <<>>

\* storage.set_cart_mandate(cart_id, cart_mandate)
set_cart_mandate(store, cart_id, cart_mandate) ==
  [k \in DOMAIN store \cup {cart_id} |->
     IF k = cart_id THEN cart_mandate ELSE store[k]]

\* storage.get_risk_data(context_id): the stored data, <<>> for None.
get_risk_data(risks, context_id) ==
  IF context_id \in DOMAIN risks THEN <<risks[context_id]>> ELSE <<>>

\* storage.set_risk_data(context_id, risk_data)
set_risk_data(risks, context_id, risk_data) ==
  [k \in DOMAIN risks \cup {context_id} |->
     IF k = context_id THEN risk_data ELSE risks[k]]

\* `not cart_id` is false: the data part is there and not empty.
CartIdGiven(cart_id) == cart_id # PyNone /\ cart_id[2] # <<>>

\* `not shipping_address` is false: the data part is there and not empty.
AddressGiven(shipping_address) ==
  shipping_address.kind \notin {"absent", "empty"}

\* Variant: the risk data of the context is not looked up.
update_cart_NoRiskCheck(store, risks, context_id, cart_id, shipping_address) ==
  IF ~CartIdGiven(cart_id)
    THEN [carts |-> store, task |-> _fail_task(NewTask, "Missing cart_id.")]
  ELSE IF ~AddressGiven(shipping_address)
    THEN [carts |-> store,
          task |-> _fail_task(NewTask, "Missing shipping_address.")]
  ELSE IF get_cart_mandate(store, cart_id[2]) = <<>>
    THEN [carts |-> store,
          task |-> _fail_task(NewTask,
                     "CartMandate not found for cart_id: {cart_id}")]
  ELSE IF shipping_address.kind # "valid"
    THEN [carts |-> store,
          task |-> _fail_task(NewTask, "Invalid CartMandate after update: {e}")]
  ELSE LET cart_mandate ==
             WithShippingAndTax(get_cart_mandate(store, cart_id[2])[1],
                                shipping_address)
       IN  [carts |-> [store EXCEPT ![cart_id[2]] = cart_mandate],
            task |-> complete(
              add_artifact(NewTask,
                << DataPart(CART_MANDATE_DATA_KEY, model_dump(cart_mandate)),
                   DataPart("risk_data", "") >>),
              <<>>)]

\* update_cart: the four precondition checks, then the update of the stored
\* CartMandate object (the store hands out the object it holds), the artifact
\* with the updated cart and the risk data, and completion.  The interpolated
\* values of the error texts are left out.
update_cart(store, risks, context_id, cart_id, shipping_address) ==
  IF ~CartIdGiven(cart_id)
    THEN [carts |-> store, task |-> _fail_task(NewTask, "Missing cart_id.")]
  ELSE IF ~AddressGiven(shipping_address)
    THEN [carts |-> store,
          task |-> _fail_task(NewTask, "Missing shipping_address.")]
  ELSE IF get_cart_mandate(store, cart_id[2]) = <<>>
    THEN [carts |-> store,
          task |-> _fail_task(NewTask,
                     "CartMandate not found for cart_id: {cart_id}")]
  ELSE IF get_risk_data(risks, context_id) = <<>>
    THEN [carts |-> store,
          task |-> _fail_task(NewTask,
                     "Missing risk_data for context_id: {context_id}")]
  ELSE IF shipping_address.kind # "valid"
    THEN \* line 100: ContactAddress.model_validate raises ValidationError
         [carts |-> store,
          task |-> _fail_task(NewTask, "Invalid CartMandate after update: {e}")]
  ELSE LET cart_mandate ==
             WithShippingAndTax(get_cart_mandate(store, cart_id[2])[1],
                                shipping_address)
       IN  [carts |-> [store EXCEPT ![cart_id[2]] = cart_mandate],
            task |-> complete(
              add_artifact(NewTask,
                << DataPart(CART_MANDATE_DATA_KEY, model_dump(cart_mandate)),
                   DataPart("risk_data",
                            get_risk_data(risks, context_id)[1]) >>),
              <<>>)]

----------------------------------------------------------------------------
(* merchant_agent: inputs, initial state and actions of the cart operations *)

MaxItems == 1       \* number of items one find_items_workflow run generates

MaxUpdates == 2     \* number of successful update_cart calls on the stored carts

\* The shopper contexts (context ids).
Contexts == { "ctx_1", "ctx_2" }

\* The PaymentItems the language model may return (label, amount.value).
ItemInputs ==
  { [label |-> "Diapers M, jumbo pack", value |-> 1000],
    [label |-> "Diapers M, regular", value |-> 250] }

\* What find_data_part("cart_id", data_parts) yields: nothing, the id of a
\* cart the catalog can create, or another id.
CartIdInputs ==
  { PyNone } \cup { PyStr(CartId(n)) : n \in 1..(MaxItems + 1) }

\* What find_data_part("shipping_address", data_parts) yields: nothing, an
\* address ContactAddress accepts, or one it rejects.
AddressInputs ==
  { [kind |-> k, city |-> IF k = "valid" THEN "Tokyo" ELSE ""] :
      k \in {"absent", "valid", "invalid"} }

\* The risk data _collect_risk_data fabricates.
FakeRiskData == "eyJhbGciOiJIUzI1NiIsInR5cCI6IkpXVCJ9...fake_risk_data"

\* No find_items_workflow run in flight in a context.
IdleFind == [pc |-> "idle", item_count |-> 0, task |-> NoTask]

\* No cart operation has just finished.  A finished one records its name,
\* context and inputs, the cart store before it ran, and its task at its end.
NoCartOp ==
  [op |-> "none", context_id |-> "", cart_id |-> PyNone,
   shipping_address |-> [kind |-> "absent", city |-> ""],
   pre |-> <<>>, task |-> NoTask]

\* The number of successful update_cart calls a stored cart has gone through.
Updates(cart_mandate) == (Len(cart_mandate.display_items) - 2) \div 2

\* The number of successful update_cart calls the stored carts have gone
\* through together.
TotalUpdates ==
  sum([n \in 1..MaxItems |->
         IF CartId(n) \in DOMAIN carts THEN Updates(carts[CartId(n)]) ELSE 0])

CartInit ==
  /\ carts = <<>>
  /\ risk_store = <<>>
  /\ find = [c \in Contexts |-> IdleFind]
  /\ cfin = NoCartOp

\* find_items_workflow, lines 54-84: the request arrives and the language
\* model is asked for items.  Its list (llm_response.parsed, of up to
\* MaxItems items) is revealed item by item as the loop reads it.
FindItemsStart(c) ==
  /\ find[c].pc = "idle"
  /\ find' = [find EXCEPT ![c] =
                [pc |-> "running", item_count |-> 0, task |-> NewTask]]
  /\ cfin' = NoCartOp
  /\ UNCHANGED <<carts, risk_store, tokenVars, cardVars, lookupVars, shopperVars, payVars>>

\* One round of the loop, lines 85-89: _create_and_add_cart_mandate_artifact
\* stores the cart of the next item and adds it as an artifact.
FindItemsCreate(c) ==
  \E item \in ItemInputs :
    LET f == find[c]
        item_count == f.item_count + 1
        cart_mandate == NewCartMandate(item, item_count)
    IN  /\ f.pc = "running"
        /\ f.item_count < MaxItems
        /\ carts' = set_cart_mandate(carts, cart_mandate.id, cart_mandate)
        /\ find' = [find EXCEPT ![c] =
                      [f EXCEPT !.item_count = item_count,
                                !.task = add_artifact(f.task,
                                   << DataPart(CART_MANDATE_DATA_KEY,
                                               model_dump(cart_mandate)) >>)]]
        /\ cfin' = NoCartOp
        /\ UNCHANGED <<risk_store, tokenVars, cardVars, lookupVars, shopperVars, payVars>>

\* Lines 90-94, after the last item: the risk data is stored and the task
\* completed.  The call
\* updater.add_artifact(...) of line 91 is not awaited, so its coroutine never
\* runs and no risk_data artifact is added.
FindItemsComplete(c) ==
  LET f == find[c]
      task == complete(f.task, <<>>)
  IN  /\ f.pc = "running"
      /\ risk_store' = set_risk_data(risk_store, c, FakeRiskData)
      /\ find' = [find EXCEPT ![c] = IdleFind]
      /\ cfin' = [NoCartOp EXCEPT !.op = "find_items_workflow",
                                  !.context_id = c, !.pre = carts,
                                  !.task = task]
      /\ UNCHANGED <<carts, tokenVars, cardVars, lookupVars, shopperVars, payVars>>

\* Lines 95-100: building the cart of the next item raises ValidationError
\* (it may also be raised before the first item, by llm_response.parsed); the
\* task is failed with the error's text, and neither the risk data is stored
\* nor the carts stored so far are taken back.
FindItemsFail(c) ==
  LET f == find[c]
      task == failed(f.task,
                _create_text_parts("Invalid CartMandate list: {e}"))
  IN  /\ f.pc = "running"
      /\ find' = [find EXCEPT ![c] = IdleFind]
      /\ cfin' = [NoCartOp EXCEPT !.op = "find_items_workflow",
                                  !.context_id = c, !.pre = carts,
                                  !.task = task]
      /\ UNCHANGED <<carts, risk_store, tokenVars, payVars, cardVars,
                     lookupVars, shopperVars>>

\* update_cart: it has no await between reading the store and the end of
\* the update, so it is one step.
UpdateCart(c) ==
  \E cart_id \in CartIdInputs, shipping_address \in AddressInputs :
    LET r == update_cart(carts, risk_store, c, cart_id, shipping_address)
    IN  /\ r.task.state = "completed" => TotalUpdates < MaxUpdates
        /\ carts' = r.carts
        /\ cfin' = [op |-> "update_cart", context_id |-> c,
                    cart_id |-> cart_id, shipping_address |-> shipping_address,
                    pre |-> carts, task |-> r.task]
        /\ UNCHANGED <<risk_store, find, tokenVars, cardVars, lookupVars, shopperVars, payVars>>

----------------------------------------------------------------------------
(* Specifications *)

----------------------------------------------------------------------------
(* merchant_agent/tools.py: _get_payment_processor_task_id on any history *)

MaxHistory == 4     \* number of messages in a task's history

\* The task ids the messages of a history carry: the task's own, the
\* processor task's, and that of a third task.
HistoryTaskIds == { MerchantTaskId, ProcessorTaskId, "task_other" }

\* The histories of a task, as the task ids of their messages.
Histories == UNION { [1..n -> HistoryTaskIds] : n \in 0..MaxHistory }

\* No call of _get_payment_processor_task_id.  A call records whether a task
\* was passed, the task's history, what the function returned and the task
\* id the outgoing message then gets.
NoLookup ==
  [pc |-> "idle", task_present |-> FALSE, history |-> <<>>, ret |-> PyNone,
   task_id |-> PyNone]

LookupInit == lookup = NoLookup

\* A call is about to be made, without a task or with a task of any history.
LookupCalledInit ==
  \E task_present \in BOOLEAN, history \in Histories :
    /\ ~task_present => history = <<>>
    /\ lookup = [NoLookup EXCEPT !.pc = "called",
                                 !.task_present = task_present,
                                 !.history = history]

\* initiate_payment, lines 208-210: the processor's task id is looked up in
\* the merchant task and set on the outgoing message when there is one.
GetPaymentProcessorTaskId ==
  LET payment_processor_task_id ==
        _get_payment_processor_task_id(lookup.task_present, lookup.history,
                                       MerchantTaskId)
  IN  /\ lookup.pc = "called"
      /\ lookup' = [lookup EXCEPT
                      !.pc = "done",
                      !.ret = payment_processor_task_id,
                      !.task_id = OutgoingTaskId(payment_processor_task_id)]
      /\ UNCHANGED <<tokenVars, payVars, cartVars, cardVars, shopperVars>>

----------------------------------------------------------------------------
(* shopping_agent/subagents/shopper/tools.py: the session state and the     *)
(* tools find_products and update_chosen_cart_mandate                        *)

MaxReplyCarts == 2  \* CartMandate artifacts in a task the merchant returns

\* tool_context.state[key] = value
StateSet(state, key, value) ==
  [k \in DOMAIN state \cup {key} |-> IF k = key THEN value ELSE state[k]]

\* tool_context.state.get(key, default)
StateGet(state, key, default) ==
  IF key \in DOMAIN state THEN state[key] ELSE default

\* The IntentMandate create_intent_mandate builds (description only).
IntentMandate(natural_language_description) ==
  [natural_language_description |-> natural_language_description]

\* The descriptions create_intent_mandate is called with.
IntentInputs == { "diapers" }

\* CartMandate.model_validate(data): the object built from a dumped cart, with
\* an amount object of its own for every display item and for the total.
CartMandate_model_validate(data) ==
  LET n == Len(data.display_items)
  IN  [id |-> data.id,
       amounts |-> [i \in 1..(n + 1) |->
                      IF i <= n THEN data.display_items[i].amount
                                ELSE data.total.amount],
       display_items |-> [i \in 1..n |->
                            [label |-> data.display_items[i].label,
                             amount |-> i]],
       total |-> [label |-> data.total.label, amount |-> n + 1],
       shipping_address |-> data.shipping_address,
       merchant_authorization |-> data.merchant_authorization]

\* _parse_cart_mandates: find_canonical_objects(artifacts,
\* CART_MANDATE_DATA_KEY, CartMandate), the CartMandates of the data parts
\* with this key, artifact by artifact and part by part.
_parse_cart_mandates(artifacts) ==
  LET found[i \in 0..Len(artifacts)] ==
        IF i = 0 THEN <<>>
        ELSE found[i - 1]
               \o SelectSeq(artifacts[i],
                            LAMBDA part : /\ part.kind = "data"
                                          /\ part.key = CART_MANDATE_DATA_KEY)
      parts == found[Len(artifacts)]
  IN  [i \in 1..Len(parts) |-> CartMandate_model_validate(parts[i].value)]

\* _collect_risk_data: the fake risk data is put into the session state.
_collect_risk_data(state) == StateSet(state, "risk_data", FakeRiskData)

\* The task states the A2A client may deliver.
ReplyStates == { "completed", "failed", "input_required", "working" }

\* The item the merchant's i-th cart is built for: the language model's two
\* items in turn.
ReplyItem(i) ==
  IF i % 2 = 1 THEN [label |-> "Diapers M, jumbo pack", value |-> 1000]
               ELSE [label |-> "Diapers M, regular", value |-> 250]

\* The artifacts of a task the merchant returns: those find_items_workflow
\* adds, one CartMandate artifact per item, for cart_1, cart_2, ...
ReplyArtifacts ==
  { [i \in 1..n |->
       << DataPart(CART_MANDATE_DATA_KEY,
                   model_dump(NewCartMandate(ReplyItem(i), i))) >>] :
    n \in 0..MaxReplyCarts }

\* The tasks merchant_agent_client.send_a2a_message may come back with.
MerchantTaskInputs ==
  [state : ReplyStates, context_id : Contexts, artifacts : ReplyArtifacts]

\* No task: the merchant was not called.
NoReply == [state |-> "none", context_id |-> "", artifacts |-> <<>>]

\* Variant: only a failed task is refused.
find_products_refused_OnlyFailed(task) == task.state = "failed"

\* Lines 104-105: the task did not come back completed.
find_products_refused(task) == task.state # "completed"

\* find_products(tool_context) when the merchant answers with `task`: the
\* session state after the call, whether the merchant was called, the
\* returned list and the exception raised.
find_products(state, task) ==
  IF "intent_mandate" \notin DOMAIN state
    THEN [state |-> state, sent |-> FALSE, ret |-> <<>>,
          exc |-> [type |-> "KeyError", msg |-> <<"intent_mandate">>]]
  ELSE
    LET collected == _collect_risk_data(state)
        cart_mandates == _parse_cart_mandates(task.artifacts)
    IN  IF find_products_refused(task)
          THEN [state |-> collected, sent |-> TRUE, ret |-> <<>>,
                exc |-> [type |-> "RuntimeError",
                         msg |-> <<"Failed to find products: {task.status}">>]]
          ELSE [state |-> StateSet(StateSet(collected, "shopping_context_id",
                                            task.context_id),
                                   "cart_mandates", cart_mandates),
                sent |-> TRUE, ret |-> cart_mandates, exc |-> NoExc]

\* The cart ids update_chosen_cart_mandate is called with.
ChosenIdInputs == { CartId(n) : n \in 1..(MaxReplyCarts + 1) }

\* Variant: the id is taken without looking at the session's carts.
HoldsCart_Any(cart_mandates, cart_id) == TRUE

\* Lines 121-125: the loop finds a cart with this id.
HoldsCart(cart_mandates, cart_id) ==
  \E i \in 1..Len(cart_mandates) : cart_mandates[i].id = cart_id

\* update_chosen_cart_mandate(cart_id, tool_context): the session state
\* after the call and the returned text.
update_chosen_cart_mandate(state, cart_id) ==
  LET cart_mandates == StateGet(state, "cart_mandates", <<>>)
  IN  IF HoldsCart(cart_mandates, cart_id)
        THEN [state |-> StateSet(state, "chosen_cart_id", cart_id),
              ret |-> "CartMandate with ID {cart_id} selected."]
        ELSE [state |-> state,
              ret |-> "CartMandate with ID {cart_id} not found."]

\* No shopper tool call.  A call records the session state it ran on, the
\* task the merchant returned, the cart id given, the returned value and the
\* exception raised.
NoShopperOp ==
  [op |-> "none", pre |-> <<>>, task |-> NoReply, cart_id |-> <<>>,
   ret |-> <<>>, exc |-> NoExc]

\* The shopper's session before any tool call.
ShopperInit ==
  /\ session = <<>>
  /\ sfin = NoShopperOp
  /\ shown = {}

\* create_intent_mandate: the mandate is put into the session state.
CreateIntentMandate ==
  \E natural_language_description \in IntentInputs :
    /\ session' = StateSet(session, "intent_mandate",
                           IntentMandate(natural_language_description))
    /\ sfin' = [NoShopperOp EXCEPT !.op = "create_intent_mandate",
                                   !.pre = session]
    /\ UNCHANGED <<shown, tokenVars, payVars, cartVars, cardVars, lookupVars>>

\* find_products with any task the merchant may come back with.
FindProducts ==
  \E task \in MerchantTaskInputs :
    LET r == find_products(session, task)
    IN  /\ ~r.sent => task = CHOOSE t \in MerchantTaskInputs : TRUE
        /\ session' = r.state
        /\ sfin' = [NoShopperOp EXCEPT
                      !.op = "find_products", !.pre = session,
                      !.task = IF r.sent THEN task ELSE NoReply,
                      !.ret = r.ret, !.exc = r.exc]
        /\ shown' = IF r.sent /\ task.state = "completed"
                      THEN shown \cup { task.artifacts[i][1].value.id :
                                          i \in 1..Len(task.artifacts) }
                      ELSE shown
        /\ UNCHANGED <<tokenVars, payVars, cartVars, cardVars, lookupVars>>

\* update_chosen_cart_mandate with any cart id.
UpdateChosenCartMandate ==
  \E cart_id \in ChosenIdInputs :
    LET r == update_chosen_cart_mandate(session, cart_id)
    IN  /\ session' = r.state
        /\ sfin' = [NoShopperOp EXCEPT
                      !.op = "update_chosen_cart_mandate", !.pre = session,
                      !.cart_id = <<cart_id>>, !.ret = r.ret]
        /\ UNCHANGED <<shown, tokenVars, payVars, cartVars, cardVars,
                       lookupVars>>

\* The cards of the remote agents advertise the AP2 extension.
CardInit == advertised = [a \in RemoteAgents |-> {EXTENSION_URI}]

Init ==
  TokenInit /\ PayInit /\ CartInit /\ CardInit /\ LookupInit /\ ShopperInit

\* The remote agents' cards advertise the AP2 extension or not.
NegotiationInit ==
  TokenInit /\ PayInit /\ CartInit /\ LookupInit /\ ShopperInit
    /\ advertised \in [RemoteAgents -> AdvertisedInputs]

\* A call of _get_payment_processor_task_id on any task.
TaskIdInit ==
  TokenInit /\ PayInit /\ CartInit /\ CardInit /\ ShopperInit
    /\ LookupCalledInit

TokenNext == CreateToken \/ UpdateToken \/ VerifyToken

\* The credentials provider's token table under any sequence of calls.
SpecTokens == Init /\ [][TokenNext]_vars

PayNext ==
  \E r \in Reqs :
    \/ ReceiveNew(r)
    \/ ReceiveExisting(r)
    \/ InitiatePayment(r)
    \/ CredentialReply(r)
    \/ ReceiptReply(r)
    \/ Complete(r)

ShopperNext ==
  CreateIntentMandate \/ FindProducts \/ UpdateChosenCartMandate

\* The shopper's tools under any sequence of calls and merchant replies.
SpecShopper == Init /\ [][ShopperNext]_vars

\* The payment processor under any requests and credentials provider replies.
SpecPay == Init /\ [][PayNext]_vars

CartNext ==
  \E c \in Contexts :
    \/ FindItemsStart(c)
    \/ FindItemsCreate(c)
    \/ FindItemsComplete(c)
    \/ FindItemsFail(c)
    \/ UpdateCart(c)

PurchaseNext ==
  \E r \in Reqs :
    \/ MerchantInitiatePayment(r)
    \/ InitiatePayment(r)
    \/ CredentialReply(r)
    \/ ReceiptReply(r)
    \/ Complete(r)
    \/ MerchantReply(r)

\* One purchase through the merchant: requests to the merchant's
\* initiate_payment, each forwarded to the payment processor.
SpecPurchase == Init /\ [][PurchaseNext]_vars

OneAtATimeNext ==
  \E r \in {1} :
    \/ ReceiveNew(r)
    \/ ReceiveExisting(r)
    \/ MerchantInitiatePayment(r)
    \/ InitiatePayment(r)
    \/ CredentialReply(r)
    \/ ReceiptReply(r)
    \/ Complete(r)
    \/ MerchantReply(r)

\* Requests to the processor, sent to it directly or by the merchant's
\* initiate_payment, one invocation at a time.
SpecOneAtATime == Init /\ [][OneAtATimeNext]_vars

\* The same requests, with remote agents that advertise the AP2 extension
\* and remote agents that do not.
SpecNegotiation == NegotiationInit /\ [][OneAtATimeNext]_vars

\* _get_payment_processor_task_id applied to a task of any history.
SpecTaskId == TaskIdInit /\ [][GetPaymentProcessorTaskId]_vars

\* The merchant's cart operations, in any interleaving over the contexts.
SpecCart == Init /\ [][CartNext]_vars

----------------------------------------------------------------------------
(* Token table: properties *)

\* The token was returned by some create_token call.
WasReturned(token) == \E i \in 1..Len(returned) : returned[i] = token

\* The step is a call of update_token that directly follows a call of
\* update_token on the same existing token.
SecondUpdateOfSameToken ==
  /\ last.op = "update_token"
  /\ last.token \in DOMAIN last.pre
  /\ last'.op = "update_token"
  /\ last'.token = last.token
  /\ last'.pre = _token

\* C1: first-writer-wins.  For an existing, not yet bound token and distinct
\* mandate id strings A and B (the empty string included), update_token(t, A)
\* directly followed by update_token(t, B) leaves payment_mandate_id = A and
\* the second call raises nothing.
C1_FirstWriterWins ==
  [][ ( /\ SecondUpdateOfSameToken
        /\ last.pre[last.token].payment_mandate_id = PyNone
        /\ last'.pmid # last.pmid )
      => ( /\ last'.exc = NoExc
           /\ _token'[last.token].payment_mandate_id = last.pmid ) ]_vars

\* C2: verify_token(t, A) succeeds only if an update_token(t, A) stored A as
\* the first value bound to t; and verify_token(t, B) on a bound token with
\* B different from the stored id raises the invalid-token error.
C2_RedeemOnlyWhatWasBoundFirst ==
  last.op = "verify_token" =>
    /\ last.exc = NoExc =>
         /\ last.token \in DOMAIN firstBind
         /\ firstBind[last.token] = last.pmid
    /\ ( /\ last.token \in DOMAIN last.pre
         /\ firstBind[last.token] # Unset
         /\ last.pmid # last.pre[last.token].payment_mandate_id )
       => last.exc = InvalidTokenError

\* C3: for a token create_token returned and no update_token has bound,
\* verify_token raises the invalid-token error for every supplied
\* payment_mandate_id, None included.
C3_NeverBoundNeverRedeemable ==
  ( /\ last.op = "verify_token"
    /\ WasReturned(last.token)
    /\ firstBind[last.token] = Unset )
  => last.exc = InvalidTokenError

C5_BindIdempotent ==
  [][ ( SecondUpdateOfSameToken /\ last'.pmid = last.pmid )
      => ( /\ last'.exc = NoExc
           /\ _token'[last.token].payment_mandate_id
                = _token[last.token].payment_mandate_id ) ]_vars

\* C5 witness: update_token(t, M) has run on a token whose first and current
\* binding is M, that is, after an earlier update_token(t, M) stored M.
C5_Witness ==
  /\ last.op = "update_token"
  /\ last.token \in DOMAIN last.pre
  /\ last.pre[last.token].payment_mandate_id = last.pmid
  /\ firstBind[last.token] = last.pmid
  /\ Truthy(last.pmid)
  /\ last.exc = NoExc
  /\ _token[last.token].payment_mandate_id = last.pmid

\* C6: update_token on a token that is not in the table raises the
\* token-not-found error and leaves the whole table unchanged.
C6_UpdateUnknownToken ==
  ( last.op = "update_token" /\ last.token \notin DOMAIN last.pre )
  => ( last.exc = TokenNotFoundError(last.token) /\ _token = last.pre )

\* C6 witness: update_token was called with an unknown token on a non-empty
\* table.
C6_Witness ==
  /\ last.op = "update_token"
  /\ last.token \notin DOMAIN last.pre
  /\ last.exc = TokenNotFoundError(last.token)
  /\ DOMAIN _token # {}

\* C7: create_token raises nothing for any account and alias, returns a token
\* no earlier create_token returned, stores it with payment_mandate_id None
\* under the given account and alias, and leaves every existing entry as it
\* was.
C7_CreateFresh ==
  /\ \A i, j \in 1..Len(returned) : i # j => returned[i] # returned[j]
  /\ last.op = "create_token" =>
       /\ last.exc = NoExc
       /\ last.ret = <<last.token>>
       /\ last.token \notin DOMAIN last.pre
       /\ DOMAIN _token = DOMAIN last.pre \cup {last.token}
       /\ _token[last.token] = [email_address |-> last.email,
                                payment_method_alias |-> last.alias,
                                payment_mandate_id |-> PyNone]
       /\ \A k \in DOMAIN last.pre : _token[k] = last.pre[k]

\* C7 witness: a second token was created, for an unknown account, while an
\* existing token was already bound.
C7_Witness ==
  /\ last.op = "create_token"
  /\ Len(returned) >= 2
  /\ last.email = "nobody"
  /\ \E k \in DOMAIN last.pre : Truthy(last.pre[k].payment_mandate_id)

\* C8: at-most-once bind under racing requests.  Once some update_token has
\* bound a token, no later call changes its payment_mandate_id, and
\* verify_token succeeds on it only with the id that was bound first.
C8_AtMostOnceBind ==
  [][ \A t \in DOMAIN _token :
        firstBind[t] # Unset =>
          /\ _token'[t].payment_mandate_id = _token[t].payment_mandate_id
          /\ ( /\ last'.op = "verify_token"
               /\ last'.token = t
               /\ last'.exc = NoExc )
             => last'.pmid = firstBind[t] ]_vars

----------------------------------------------------------------------------
(* Payment processor: properties *)

\* An invocation of initiate_payment with a PaymentMandate that validates has
\* just finished.
FinishedWithMandate ==
  /\ fin.pc # "idle"
  /\ fin.via = "direct"
  /\ fin.mandate.present
  /\ fin.mandate.valid

\* The message holds a data part "challenge" with fields type and
\* display_text.
HasChallengeDescriptor(message) ==
  \E i \in 1..Len(message) :
    /\ message[i].kind = "data"
    /\ message[i].key = "challenge"
    /\ {"type", "display_text"} \subseteq DOMAIN message[i].value

\* The artifacts that hold the given receipt.
ArtifactsWith(artifacts, payment_receipt) ==
  { i \in 1..Len(artifacts) : artifacts[i] = ReceiptArtifact(payment_receipt) }

\* C9: challenge state A.  initiate_payment with a valid PaymentMandate and
\* no existing task returns with the task in input_required, its message
\* holding the challenge descriptor {type, display_text}; it attaches no
\* artifact, creates no receipt and sends nothing to the credentials
\* provider, whatever challenge_response it was given.
C9_ChallengeStateA ==
  ( FinishedWithMandate /\ fin.cur = "none" )
  => /\ fin.pc = "done"
     /\ fin.exc = NoExc
     /\ fin.ret[1].state = "input_required"
     /\ HasChallengeDescriptor(fin.ret[1].message)
     /\ fin.ret[1].artifacts = <<>>
     /\ fin.added = 0
     /\ fin.receipt = <<>>
     /\ fin.sent = <<>>

\* C9 witness: a first request that already carries "123" was answered with
\* the challenge.
C9_Witness ==
  /\ FinishedWithMandate
  /\ fin.cur = "none"
  /\ fin.cr = "123"
  /\ fin.ret[1].state = "input_required"
  /\ HasChallengeDescriptor(fin.ret[1].message)

FinishedStateB == FinishedWithMandate /\ fin.cur = "input_required"

\* The invocation answered its response as incorrect: the task is back in
\* input_required with the corrective message, and the invocation created no
\* receipt, attached no artifact and sent nothing to the credentials provider.
AnsweredIncorrect ==
  /\ fin.pc = "done"
  /\ fin.exc = NoExc
  /\ fin.ret[1].state = "input_required"
  /\ fin.ret[1].message = _create_text_parts("Challenge response incorrect.")
  /\ ptask = fin.ret[1]
  /\ fin.receipt = <<>>
  /\ fin.added = 0
  /\ fin.sent = <<>>

\* C11 as claimed: challenge state B, mismatch.  Every response other than
\* "123" (the empty or absent one included) on a task in input_required is
\* answered as incorrect, and after any number of incorrect responses a later
\* "123" (with a mandate that names its credentials provider) completes the
\* payment.
C11_MismatchThenAlwaysCompletes ==
  /\ ( FinishedStateB /\ fin.cr # "123" ) => AnsweredIncorrect
  /\ ( /\ FinishedStateB
       /\ fin.cr = "123"
       /\ fin.mandate.has_token
       /\ mismatched )
     => fin.ret[1].state = "completed"

\* C11 amended: every response other than "123" on a task in input_required
\* is answered as incorrect; no count of them locks the task: after any
\* number of incorrect responses a later "123" is never answered as
\* incorrect, the credential request is sent when the mandate names its
\* credentials provider, and the payment completes when that request came
\* back with artifacts and the delivery of the receipt returned.
C11_MismatchNoLockout ==
  /\ ( FinishedStateB /\ fin.cr # "123" ) => AnsweredIncorrect
  /\ ( FinishedStateB /\ fin.cr = "123" /\ mismatched )
     => /\ ~AnsweredIncorrect
        /\ fin.mandate.has_token =>
             ( fin.sent # <<>> /\ fin.sent[1] = "credential_request" )
        /\ fin.replies = <<"artifacts", "returned">> =>
             ( /\ fin.pc = "done"
               /\ fin.ret[1].state = "completed"
               /\ fin.added = 1 )

\* C11 witness: after an incorrect response, a "123" completed the payment.
C11_Witness ==
  /\ FinishedStateB
  /\ fin.cr = "123"
  /\ mismatched
  /\ fin.pc = "done"
  /\ fin.ret[1].state = "completed"
  /\ Len(fin.ret[1].artifacts) = 1

\* The invocations, in flight or just finished, that have sent a credential
\* request to the credentials provider.
SentCredentialRequest ==
  { r \in Reqs : req[r].sent # <<>> }

\* C12: exactly-once payment progression under re-delivery.  However often
\* the correct challenge response is delivered for the task in input_required
\* (one delivery after the other, or overlapping ones that all saw the task
\* in input_required), at most one PaymentReceipt is created for the payment
\* mandate (the payment ids handed out so far number at most one) and at most
\* one credential request is sent (of the invocations in flight or just
\* finished, at most one has sent one).
C12_ExactlyOnceProgression ==
  /\ nextPaymentId - 1 <= 1
  /\ Cardinality(SentCredentialRequest)
       + (IF fin.sent # <<>> THEN 1 ELSE 0) <= 1

----------------------------------------------------------------------------
(* Merchant cart operations: properties *)

\* The cart's total amount equals the sum of its display items' amounts.
TotalIsSum(cart) ==
  cart.total.amount
    = sum([i \in 1..Len(cart.display_items) |-> cart.display_items[i].amount])

\* The CartMandates (as dumped) held by the artifacts of a task.
CartsIn(task) ==
  { task.artifacts[i][j].value :
      i \in 1..Len(task.artifacts), j \in {1} }

\* An update_cart call on a stored cart has just finished.
UpdatedStoredCart ==
  /\ cfin.op = "update_cart"
  /\ CartIdGiven(cfin.cart_id)
  /\ cfin.cart_id[2] \in DOMAIN cfin.pre

\* C13: cart total invariant.  For every CartMandate in the cart store and in
\* every artifact the merchant emits (by find_items_workflow and by
\* update_cart), the total amount equals the sum of the amounts of all display
\* items.
C13_CartTotalIsSum ==
  /\ \A id \in DOMAIN carts : TotalIsSum(model_dump(carts[id]))
  /\ \A c \in Contexts : \A cart \in CartsIn(find[c].task) : TotalIsSum(cart)
  /\ \A cart \in CartsIn(cfin.task) : TotalIsSum(cart)

\* C14: a stored CartMandate is mutated exactly once.  An update_cart for a
\* cart id whose stored cart already carries a merchant_authorization (an
\* earlier update_cart succeeded for it) leaves the stored cart's display
\* items, total and merchant_authorization unchanged.
C14_UpdatedOnce ==
  ( /\ UpdatedStoredCart
    /\ cfin.pre[cfin.cart_id[2]].merchant_authorization # PyNone )
  => LET old == model_dump(cfin.pre[cfin.cart_id[2]])
         new == model_dump(carts[cfin.cart_id[2]])
     IN  /\ new.display_items = old.display_items
         /\ new.total = old.total
         /\ new.merchant_authorization = old.merchant_authorization

\* C15: a successful update_cart on a freshly offered cart appends exactly
\* two display items, Shipping 400 and Tax 350 in this order, after the
\* existing display items, sets the shipping address and the
\* merchant_authorization, sets the total to the old total plus 750, and
\* completes the task with one artifact holding the updated CartMandate and
\* the context's risk_data.
C15_UpdateCartEffect ==
  ( /\ UpdatedStoredCart
    /\ cfin.task.state = "completed"
    /\ Updates(cfin.pre[cfin.cart_id[2]]) = 0 )
  => LET old == model_dump(cfin.pre[cfin.cart_id[2]])
         new == model_dump(carts[cfin.cart_id[2]])
     IN  /\ new.display_items
              = old.display_items \o << [label |-> "Shipping", amount |-> 400],
                                        [label |-> "Tax", amount |-> 350] >>
         /\ new.shipping_address = <<cfin.shipping_address>>
         /\ new.merchant_authorization = PyStr(_FAKE_JWT)
         /\ new.total.amount = old.total.amount + 750
         /\ cfin.task.artifacts
              = << << DataPart(CART_MANDATE_DATA_KEY, new),
                      DataPart("risk_data", risk_store[cfin.context_id]) >> >>

\* The reason update_cart gives for the first precondition that fails.
PreconditionFailure ==
  IF ~CartIdGiven(cfin.cart_id) THEN "Missing cart_id."
  ELSE IF ~AddressGiven(cfin.shipping_address)
    THEN "Missing shipping_address."
  ELSE IF cfin.cart_id[2] \notin DOMAIN cfin.pre
    THEN "CartMandate not found for cart_id: {cart_id}"
  ELSE IF cfin.context_id \notin DOMAIN risk_store
    THEN "Missing risk_data for context_id: {context_id}"
  ELSE ""

\* C16: update_cart precondition failures.  When cart_id is missing,
\* shipping_address is missing, the cart id is not in the cart store, or no
\* risk_data is stored for the context, the task ends failed with a text
\* message naming the reason, without an artifact and not completed, and the
\* stored carts are as they were.
C16_UpdateCartPreconditions ==
  ( cfin.op = "update_cart" /\ PreconditionFailure # "" )
  => /\ cfin.task.state = "failed"
     /\ cfin.task.message = _create_text_parts(PreconditionFailure)
     /\ cfin.task.artifacts = <<>>
     /\ carts = cfin.pre

\* C16 witness: update_cart with a stored cart's id and a valid address
\* failed in a context without risk data.
C16_Witness ==
  /\ UpdatedStoredCart
  /\ cfin.shipping_address.kind = "valid"
  /\ cfin.context_id \notin DOMAIN risk_store
  /\ DOMAIN risk_store # {}
  /\ cfin.task.state = "failed"

----------------------------------------------------------------------------
(* Purchase through the merchant: properties *)

\* An invocation of the merchant's initiate_payment has just finished.
MerchantFinished == fin.pc # "idle" /\ fin.via = "merchant"

\* ... and its call of the processor returned a task.
ProcessorReturned == MerchantFinished /\ fin.ptaskret # <<>>

\* C17: nested status propagation.  Whenever the merchant's initiate_payment
\* has called the processor and the call returned a task, the merchant's task
\* ends the invocation in the state and with the status message of the
\* returned task; a returned task in failed never leaves the merchant's task
\* completed or input_required.
C17_StatusPropagation ==
  ProcessorReturned
  => /\ fin.ret[1].state = fin.ptaskret[1].state
     /\ fin.ret[1].message = fin.ptaskret[1].message
     /\ fin.ptaskret[1].state = "failed"
          => fin.ret[1].state \notin {"completed", "input_required"}

\* The PaymentReceipt artifacts of a task.
ReceiptArtifacts(task) ==
  { i \in 1..Len(task.artifacts) :
      task.artifacts[i][1].key = PAYMENT_RECEIPT_DATA_KEY }

\* The invocation of the merchant's initiate_payment that just finished did
\* not get the payment through: the tool failed its task or raised, or the
\* processor returned its task in failed.
PurchaseFailed ==
  /\ MerchantFinished
  /\ \/ fin.ptaskret = <<>>
     \/ fin.exc # NoExc
     \/ fin.ptaskret[1].state = "failed"

\* C18: exactly one receipt on success.  Whenever the merchant's
\* initiate_payment task is completed it carries exactly one PaymentReceipt
\* artifact, counted over all invocations on the task; an invocation that
\* does not get the payment through leaves the task failed with a non-empty
\* message, not completed.
C18_ExactlyOneReceipt ==
  /\ mtask.state = "completed" => Cardinality(ReceiptArtifacts(mtask)) = 1
  /\ PurchaseFailed
       => /\ fin.ret[1].state = "failed"
          /\ fin.ret[1].message # <<>>
          /\ mtask = fin.ret[1]

\* No invocation is in flight, at the merchant or at the processor.
Quiescent == \A r \in Reqs : req[r].pc = "idle"

\* A task in input_required has a status message and no PaymentReceipt
\* artifact.
InputRequiredIsClean(task) ==
  task.state = "input_required"
    => /\ task.message # <<>>
       /\ ReceiptArtifacts(task) = {}

\* C19: input_required carries no receipt.  In every reachable state in which
\* no invocation is in flight, a payment task in input_required, the
\* processor's or the merchant's, has a status message (the challenge or the
\* corrective message) and carries no PaymentReceipt artifact.
C19_InputRequiredNoReceipt ==
  Quiescent => ( InputRequiredIsClean(ptask) /\ InputRequiredIsClean(mtask) )

\* An invocation of the merchant's initiate_payment on the merchant task in
\* input_required has just finished, having sent its request to the
\* processor.
Resumed ==
  /\ MerchantFinished
  /\ fin.mstate = "input_required"
  /\ fin.fwd # <<>>

\* The resumed invocation's request named the processor's task and the
\* purchase's context.
ThreadedToProcessorTask ==
  /\ fin.fwd[1].task_id = PyStr(ProcessorTaskId)
  /\ fin.fwd[1].context_id = PurchaseContextId

----------------------------------------------------------------------------
(* Payment processor: termination and failures *)

\* An invocation of the processor's initiate_payment, called directly, has
\* just finished.
ProcessorFinished == fin.pc # "idle" /\ fin.via = "direct"

\* C21: every invocation of the processor's initiate_payment, whatever state
\* the task was in on arrival, ends with the task in input_required,
\* completed or failed, and has set a task status before it ends.
C21_InvocationSetsStatus ==
  ProcessorFinished
  => /\ fin.ret[1].state \in {"input_required", "completed", "failed"}
     /\ fin.status_updates >= 1

\* An invocation whose credential request came back without artifacts has
\* just finished.
CredentialMissing ==
  /\ ProcessorFinished
  /\ fin.replies # <<>>
  /\ fin.replies[1] = "no_artifacts"

IsTextReason(message) ==
  /\ Len(message) = 1
  /\ message[1].kind = "text"
  /\ message[1].value # ""

\* The request the merchant's initiate_payment just handled fails one of its
\* local preconditions: no PaymentMandate part, no risk_data, or a payment
\* method without a processor.
MerchantPreconditionFails ==
  /\ MerchantFinished
  /\ \/ ~fin.mandate.present
     \/ fin.risk_data \in {PyNone, PyStr("")}
     \/ fin.mandate.method_name # "CARD"

\* C23: local precondition failures of initiate_payment.  A request without
\* a PaymentMandate part, at the processor and at the merchant, and at the
\* merchant a request without risk_data or with a payment method that has no
\* processor, leaves the task failed with a one-text message; the invocation
\* has called no other agent, and no challenge is issued.
C23_LocalPreconditionFailures ==
  /\ ( ProcessorFinished /\ ~fin.mandate.present )
       => /\ ptask = fin.ret[1]
          /\ ptask.state = "failed"
          /\ IsTextReason(ptask.message)
          /\ ~HasChallengeDescriptor(ptask.message)
          /\ fin.sent = <<>>
  /\ MerchantPreconditionFails
       => /\ mtask = fin.ret[1]
          /\ mtask.state = "failed"
          /\ IsTextReason(mtask.message)
          /\ ~HasChallengeDescriptor(mtask.message)
          /\ fin.fwd = <<>>
          /\ fin.ptaskret = <<>>
          /\ fin.sent = <<>>

\* C23 witness: the merchant refused a request with a PaymentMandate of a
\* payment method it has a processor for, because risk_data was missing.
C23_Witness ==
  /\ MerchantPreconditionFails
  /\ fin.mandate.present
  /\ fin.mandate.valid
  /\ fin.mandate.method_name = "CARD"
  /\ fin.ret[1].message = _create_text_parts("Missing risk_data.")

\* The receipt of an invocation names the invocation's PaymentMandate and its
\* total amount, it is what the invocation sent to the credentials provider,
\* and an invocation that has attached its artifact has attached this
\* receipt.
ReceiptMatchesMandate(q) ==
  q.receipt # <<>>
  => /\ q.receipt[1].payment_mandate_id = q.mandate.payment_mandate_id
     /\ q.receipt[1].amount = q.mandate.amount
     /\ q.sent_receipt = q.receipt
     /\ q.added >= 1
          => \E i \in 1..Len(ptask.artifacts) :
               ptask.artifacts[i] = ReceiptArtifact(q.sent_receipt[1])

\* C24: every PaymentReceipt the processor creates has the payment_mandate_id
\* of the PaymentMandate being processed and that mandate's total amount, and
\* the receipt attached to the task is the receipt that was sent to the
\* credentials provider; for every invocation in flight or just finished.
C24_ReceiptMatchesMandate ==
  /\ \A r \in Reqs : ReceiptMatchesMandate(req[r])
  /\ ReceiptMatchesMandate(fin)

\* C24 witness: two overlapping invocations have each attached a receipt to
\* the task, and the one that just finished completed it with its receipt
\* for pm_C.
C24_Witness ==
  /\ MerchantFinished
  /\ fin.mandate.payment_mandate_id = "pm_C"
  /\ fin.receipt # <<>>
  /\ fin.receipt[1].amount = 2400
  /\ fin.ptaskret # <<>>
  /\ fin.ptaskret[1].state = "completed"
  /\ Len(ptask.artifacts) = 2
  /\ ptask.artifacts[2] = ReceiptArtifact(fin.receipt[1])

\* The cart a PaymentMandate pays for: the cart whose payment request the
\* mandate's payment_details_id names.
PaidCart(payment_mandate) ==
  IF payment_mandate.payment_mandate_id = "pm_C" THEN CartId(2) ELSE CartId(1)

\* The invocation's request was forwarded to the processor only for a cart in
\* the merchant's cart store, and it created a receipt only for such a cart.
ForwardedForOfferedCart(q) ==
  ( q.via = "merchant" /\ (q.fwd # <<>> \/ q.receipt # <<>>) )
    => PaidCart(q.mandate) \in DOMAIN carts

\* C25: cross-party consistency.  The merchant forwards a payment to the
\* processor only when the PaymentMandate pays for a cart in its cart store;
\* a payment for a cart that was never offered is not forwarded and produces
\* no receipt.
C25_PaidCartWasOffered ==
  /\ \A r \in Reqs : ForwardedForOfferedCart(req[r])
  /\ ForwardedForOfferedCart(fin)

----------------------------------------------------------------------------
(* Cart store: isolation of contexts *)

\* The carts the running find_items_workflow of context c has offered so
\* far: the cart artifacts of its task.
OfferedBy(c) ==
  IF find[c].pc = "running"
    THEN { find[c].task.artifacts[i][1].value : i \in DOMAIN find[c].task.artifacts }
    ELSE {}

\* The step is an operation of a context other than c.
StepOfOtherContext(c) ==
  /\ find'[c] = find[c]
  /\ cfin'.op = "update_cart" => cfin'.context_id # c

\* C26: a cart offered in one context is never overwritten or mutated by an
\* operation of another context: the store keeps, under the cart's id, the
\* offer the context made, whatever the other contexts do.
C26_ContextIsolation ==
  [][\A c \in Contexts :
       StepOfOtherContext(c) =>
         \A cart \in OfferedBy(c) :
           /\ cart.id \in DOMAIN carts'
           /\ model_dump(carts'[cart.id]) = model_dump(carts[cart.id])]_vars

----------------------------------------------------------------------------
(* Task state machine: entering completed *)

\* The states the state machine names besides working.
NonWorkingStates == {"submitted", "input_required", "failed", "completed"}

\* The step writes the status completed to the task.
EntersCompleted(task, task_after) ==
  task_after # task /\ task_after.state = "completed"

\* C27: a task enters completed only from working: no step of the processor
\* tool or of the merchant tool writes completed to a task that is
\* submitted, input_required, failed or completed.
C27_CompletedOnlyFromWorking ==
  [][/\ EntersCompleted(ptask, ptask') => ptask.state \notin NonWorkingStates
     /\ EntersCompleted(mtask, mtask') => mtask.state \notin NonWorkingStates]_vars

----------------------------------------------------------------------------
(* Capability negotiation *)

\* The invocation records: those in flight and the one just finished.
Invocations == { req[r] : r \in Reqs } \cup { fin }

\* The finished invocation got as far as the processor's call of the
\* credentials provider: the processor's task was input_required, the mandate
\* is valid and carries a token, and the challenge response is correct.
ReachedCredentialCall ==
  /\ fin.pc # "idle"
  /\ fin.via = "merchant" => fin.ptaskret # <<>>
  /\ fin.cur = "input_required"
  /\ fin.mandate.present /\ fin.mandate.valid /\ fin.mandate.has_token
  /\ fin.cr = "123"

\* C28: a call of the processor by the merchant, or of the credentials
\* provider by the processor, to an agent that does not advertise the AP2
\* extension fails with UnsupportedExtensionError before anything reaches the
\* callee: the processor takes no request of the merchant and returns no
\* task, and the credentials provider is sent neither a credential request
\* nor a receipt, and replies nothing (the merchant gets the processor's
\* task, failed with that error).
C28_CapabilityNegotiation ==
  /\ EXTENSION_URI \notin advertised["payment_processor_agent"] =>
       /\ \A r \in Reqs : req[r].via # "merchant"
       /\ fin.via = "merchant" =>
            /\ fin.ptaskret = <<>>
            /\ fin.fwd # <<>> => fin.exc.type = "UnsupportedExtensionError"
  /\ EXTENSION_URI \notin advertised["credentials_provider"] =>
       /\ \A q \in Invocations :
            q.sent = <<>> /\ q.replies = <<>> /\ q.receipt = <<>>
       /\ ReachedCredentialCall =>
            IF fin.via = "direct"
              THEN fin.exc.type = "UnsupportedExtensionError"
              ELSE fin.ptaskret[1] =
                     ExecutorFailed(fin.ptaskret[1],
                       [type |-> "UnsupportedExtensionError", msg |-> <<>>])

\* Neither agent advertises the extension: the merchant's call has failed
\* the merchant's task, and a request sent to the processor directly has
\* just been refused the call of the credentials provider.
C28_Witness ==
  /\ advertised = [a \in RemoteAgents |-> {}]
  /\ mtask.state = "failed"
  /\ mtask.message =
       _create_text_parts("An error occurred: UnsupportedExtensionError")
  /\ ReachedCredentialCall
  /\ fin.via = "direct"
  /\ fin.exc.type = "UnsupportedExtensionError"
  /\ fin.sent = <<>>

----------------------------------------------------------------------------
(* Token redemption: the payment method returned *)

\* The last call was a verify_token that returned, for a token presented
\* with the payment_mandate_id it is bound to.
VerifySucceeded ==
  /\ last.op = "verify_token"
  /\ last.exc = NoExc
  /\ Truthy(last.pmid)

\* C29: a successful verify_token returns a payment method, which is one of
\* the account the token was created for and has the token's alias up to
\* case.
C29_RedeemYieldsBoundMethod ==
  VerifySucceeded =>
    LET entry == last.pre[last.token]
    IN  /\ last.ret # <<>>
        /\ \E i \in DOMAIN get_account_payment_methods(entry.email_address) :
             get_account_payment_methods(entry.email_address)[i] = last.ret[1]
        /\ casefold(last.ret[1].alias) = casefold(entry.payment_method_alias)

----------------------------------------------------------------------------
(* Payment completion: order of the steps *)

\* Invocation q has followed the order of _complete_payment so far.
CompletionInOrder(q) ==
  /\ q.sent # <<>> =>
       /\ q.sent[1] = "credential_request"
       /\ q.cur = "input_required"
       /\ q.cr = "123"
  /\ q.receipt # <<>> =>
       /\ q.sent # <<>>
       /\ q.replies # <<>> /\ q.replies[1] = "artifacts"
  /\ q.added > 0 =>
       /\ q.receipt # <<>>
       /\ q.sent = << "credential_request", "payment_receipt" >>
       /\ q.sent_receipt = q.receipt
       /\ q.replies = << "artifacts", "returned" >>
  /\ (q.ret # <<>> /\ q.ret[1].state = "completed" /\ q.exc = NoExc
        /\ q.status_updates > 0) =>
       /\ q.added = 1
       /\ \E i \in DOMAIN q.ret[1].artifacts :
            q.ret[1].artifacts[i] = ReceiptArtifact(q.receipt[1])

\* C30: the processor sends the credential request only after a correct
\* challenge response on an input_required task, creates the receipt only
\* after the credentials provider returned a credential, sends the receipt
\* before attaching it, and attaches it before completing the task.
C30_CompletionOrder ==
  /\ \A r \in Reqs : CompletionInOrder(req[r])
  /\ CompletionInOrder(fin)
  /\ ptask.state = "completed" => ptask.artifacts # <<>>

\* An invocation has just completed the task, with its receipt attached.
C30_Witness ==
  /\ fin.pc = "done"
  /\ fin.status_updates = 1
  /\ fin.ret[1].state = "completed"
  /\ fin.added = 1
  /\ fin.sent = << "credential_request", "payment_receipt" >>

----------------------------------------------------------------------------
(* Recovery of the processor's task id *)

\* The positions of the history's messages of another task.
ForeignMessages ==
  { i \in 1..Len(lookup.history) : lookup.history[i] # MerchantTaskId }

\* C31: _get_payment_processor_task_id returns the task id of the first
\* message of the history whose task id is not the task's own, and None when
\* there is no task or no such message; the outgoing message gets a task id
\* exactly when the result is present, and then this one.
C31_FirstForeignTaskId ==
  lookup.pc = "done" =>
    /\ IF lookup.task_present /\ ForeignMessages # {}
         THEN \E i \in ForeignMessages :
                /\ \A j \in 1..(i - 1) : lookup.history[j] = MerchantTaskId
                /\ lookup.ret = PyStr(lookup.history[i])
         ELSE lookup.ret = PyNone
    /\ lookup.task_id # PyNone <=> lookup.ret # PyNone
    /\ lookup.task_id = lookup.ret

\* The history holds messages of two other tasks after one of the task's
\* own, and the id of the first of them was returned and set.
C31_Witness ==
  /\ lookup.pc = "done"
  /\ lookup.history =
       << MerchantTaskId, ProcessorTaskId, MerchantTaskId, "task_other" >>
  /\ lookup.ret = PyStr(ProcessorTaskId)
  /\ lookup.task_id = PyStr(ProcessorTaskId)

----------------------------------------------------------------------------
(* Payment processor: terminal states *)

\* The invocation that just finished was made on a task that was completed
\* or failed when the request arrived.
OnTerminalTask ==
  /\ fin.pc # "idle"
  /\ fin.via = "direct"
  /\ fin.cur \in {"completed", "failed"}

\* C32: an invocation on a task that is already completed or failed does not
\* change the task's state (a status it writes is the state the task had)
\* and attaches no artifact, whatever the request carries; it creates no
\* receipt and sends nothing to the credentials provider.
C32_TerminalAbsorbing ==
  OnTerminalTask =>
    /\ fin.status_updates > 0 => fin.ret[1].state = fin.cur
    /\ fin.added = 0
    /\ fin.receipt = <<>>
    /\ fin.sent = <<>>

----------------------------------------------------------------------------
(* Payment processor: no way around the challenge *)

\* The invocation that just finished was the first request of the payment,
\* with a valid PaymentMandate.
FirstRequest ==
  /\ fin.pc # "idle"
  /\ fin.via = "direct"
  /\ fin.cur = "none"
  /\ fin.mandate.present /\ fin.mandate.valid

\* A first request is answered with the challenge, whatever response it
\* carries, and no invocation goes on to the credential request unless its
\* task was input_required and its response is "123".
ChallengeNotBypassed ==
  /\ FirstRequest =>
       /\ fin.ret[1].state = "input_required"
       /\ fin.ret[1].message = ChallengeMessage
       /\ ptask.state = "input_required"
  /\ \A r \in Reqs :
       req[r].pc \in {"await_credential", "await_receipt_ack", "complete"}
         => req[r].cur = "input_required" /\ req[r].cr = "123"

\* The step takes the task to completed, by an invocation made on the task
\* in input_required with challenge_response "123".
CompletedByChallengeResponse ==
  ( ptask.state # "completed" /\ ptask'.state = "completed" )
    => /\ ptask.state # "none"
       /\ fin'.pc = "done"
       /\ fin'.cur = "input_required"
       /\ fin'.cr = "123"

\* C33: no challenge bypass.  A payment task reaches completed only by a
\* request made on the task in input_required that carries challenge_response
\* "123"; a first request that already carries "123" is answered with the
\* challenge and does not complete.
C33_NoChallengeBypass ==
  []ChallengeNotBypassed /\ [][CompletedByChallengeResponse]_vars

\* The first request was challenged, the second one, with "123", has just
\* completed the task, and no incorrect response was given in between.
C33_Witness ==
  /\ fin.pc = "done"
  /\ fin.via = "direct"
  /\ fin.cur = "input_required"
  /\ fin.cr = "123"
  /\ fin.ret[1].state = "completed"
  /\ ptask.state = "completed"
  /\ ~mismatched
  /\ nextPaymentId = 2

----------------------------------------------------------------------------
(* find_items_workflow: what a completed run leaves *)

\* A find_items_workflow run has just completed its task.
FindItemsCompleted ==
  cfin.op = "find_items_workflow" /\ cfin.task.state = "completed"

\* The task's artifacts are n CartMandate artifacts for cart_1 .. cart_n, in
\* this order, each with total equal to the sum of its display items, and
\* after them one risk_data artifact.
CartsThenRiskData(task, n) ==
  /\ Len(task.artifacts) = n + 1
  /\ \A i \in 1..n :
       /\ Len(task.artifacts[i]) = 1
       /\ task.artifacts[i][1].key = CART_MANDATE_DATA_KEY
       /\ task.artifacts[i][1].value.id = CartId(i)
       /\ TotalIsSum(task.artifacts[i][1].value)
  /\ task.artifacts[n + 1][1].key = "risk_data"

\* C34: a completed find_items_workflow run that generated n items has
\* stored carts under cart_1 .. cart_n, added them as n CartMandate artifacts
\* in that order, each with total equal to the sum of its display items,
\* stored risk data under its context id, and added one risk_data artifact
\* after the cart artifacts.
C34_FindItemsResult ==
  FindItemsCompleted =>
    \E n \in 0..MaxItems :
      /\ \A i \in 1..n : CartId(i) \in DOMAIN carts
      /\ get_risk_data(risk_store, cfin.context_id) = <<FakeRiskData>>
      /\ CartsThenRiskData(cfin.task, n)

\* A find_items_workflow run has just ended on a validation error.
FindItemsFailed ==
  cfin.op = "find_items_workflow" /\ cfin.task.state = "failed"

\* The ids of the carts a run added to its task as artifacts.
CartIdsOf(task) ==
  { PyStr(task.artifacts[i][1].value.id) : i \in 1..Len(task.artifacts) }

\* The failed run's task is failed with a one-part text message.
FailedWithText ==
  FindItemsFailed =>
    /\ Len(cfin.task.message) = 1
    /\ cfin.task.message[1].kind = "text"

\* The call that follows the failed run is an update_cart in its context for
\* one of its carts, and it succeeds.
UpdateOfFailedRunSucceeds ==
  /\ FindItemsFailed
  /\ cfin'.op = "update_cart"
  /\ cfin'.context_id = cfin.context_id
  /\ cfin'.cart_id \in CartIdsOf(cfin.task)
  /\ cfin'.task.state = "completed"

\* C35: a find_items_workflow run that hits a validation error ends with its
\* task failed with a text message, not completed, and an update_cart that
\* follows in the same context for a cart of the failed run does not succeed.
C35_FailedRunNotUpdatable ==
  []FailedWithText /\ [][~UpdateOfFailedRunSucceeds]_vars

----------------------------------------------------------------------------
(* Shopper tools: properties *)

\* find_products has just finished, and the merchant's task came back.
FoundProducts == sfin.op = "find_products" /\ sfin.task # NoReply

\* The session state key is as it was before the call: absent as before, or
\* present with the same value.
KeyUnchanged(key) ==
  /\ key \in DOMAIN session <=> key \in DOMAIN sfin.pre
  /\ key \in DOMAIN session => session[key] = sfin.pre[key]

\* The session's cart_mandates are the CartMandates of the task's artifacts,
\* one for one and in the artifacts' order.
HoldsCartsOf(task) ==
  /\ "cart_mandates" \in DOMAIN session
  /\ Len(session["cart_mandates"]) = Len(task.artifacts)
  /\ \A i \in 1..Len(task.artifacts) :
       model_dump(session["cart_mandates"][i]) = task.artifacts[i][1].value

\* C36: when the merchant's task comes back in a state other than completed,
\* find_products raises an error and leaves the session keys cart_mandates
\* and shopping_context_id as they were; when it comes back completed,
\* cart_mandates holds exactly the CartMandates of the task's artifacts, in
\* order, and shopping_context_id holds the task's context id.
C36_FindProductsResult ==
  FoundProducts =>
    IF sfin.task.state = "completed"
      THEN /\ sfin.exc = NoExc
           /\ HoldsCartsOf(sfin.task)
           /\ "shopping_context_id" \in DOMAIN session
           /\ session["shopping_context_id"] = sfin.task.context_id
      ELSE /\ sfin.exc.type = "RuntimeError"
           /\ KeyUnchanged("cart_mandates")
           /\ KeyUnchanged("shopping_context_id")

\* C36 witness: a task with two carts came back input_required from another
\* context than the one the session holds carts of, and an error was raised.
C36_Witness ==
  /\ FoundProducts
  /\ sfin.task.state = "input_required"
  /\ Len(sfin.task.artifacts) = 2
  /\ sfin.exc.type = "RuntimeError"
  /\ "cart_mandates" \in DOMAIN session
  /\ Len(session["cart_mandates"]) = 1
  /\ session["shopping_context_id"] # sfin.task.context_id

\* update_chosen_cart_mandate has just finished.
ChoseCart == sfin.op = "update_chosen_cart_mandate"

\* The ids of the CartMandates a session state holds in cart_mandates.
IdsHeld(state) ==
  IF "cart_mandates" \in DOMAIN state
    THEN { state["cart_mandates"][i].id :
             i \in 1..Len(state["cart_mandates"]) }
    ELSE {}

\* The call set chosen_cart_id exactly when the session held a cart with the
\* id; otherwise it reported not found and left chosen_cart_id as it was.
ChosenWhenHeld ==
  ChoseCart =>
    IF sfin.cart_id[1] \in IdsHeld(sfin.pre)
      THEN /\ "chosen_cart_id" \in DOMAIN session
           /\ session["chosen_cart_id"] = sfin.cart_id[1]
           /\ sfin.ret = "CartMandate with ID {cart_id} selected."
      ELSE /\ sfin.ret = "CartMandate with ID {cart_id} not found."
           /\ KeyUnchanged("chosen_cart_id")

\* A set chosen_cart_id is the id of a cart the merchant returned.
ChosenWasShown ==
  "chosen_cart_id" \in DOMAIN session =>
    session["chosen_cart_id"] \in shown

\* C37: update_chosen_cart_mandate sets chosen_cart_id to cart_id exactly
\* when cart_id is the id of one of the session's cart_mandates, and
\* otherwise reports not found and leaves chosen_cart_id unchanged; after any
\* sequence of find_products and update_chosen_cart_mandate calls a set
\* chosen_cart_id is the id of a cart the merchant returned to the session.
C37_ChosenCartWasReturned == ChosenWhenHeld /\ ChosenWasShown

\* C37 witness: a cart was chosen, a later find_products replaced the
\* session's carts by a list without it, and a call with an id the session
\* does not hold reported not found.
C37_Witness ==
  /\ ChoseCart
  /\ sfin.ret = "CartMandate with ID {cart_id} not found."
  /\ "chosen_cart_id" \in DOMAIN session
  /\ session["chosen_cart_id"] \notin IdsHeld(session)
  /\ IdsHeld(session) # {}

----------------------------------------------------------------------------
(* Token table: verify_token reads only *)

\* verify_token has just been called.
Verified == last.op = "verify_token"

\* The token is in the table with a payment_mandate_id stored.
BoundIn(tab, token) ==
  token \in DOMAIN tab /\ tab[token].payment_mandate_id # PyNone

\* C38: a verify_token call, successful or not, leaves the token table as it
\* was: every token bound before the call is bound to the same mandate id
\* after it and verifies with that id again, and no token is bound after the
\* call that was not bound before it.
C38_VerifyReadsOnly ==
  Verified =>
    /\ _token = last.pre
    /\ \A token \in DOMAIN last.pre :
         BoundIn(last.pre, token) =>
           /\ BoundIn(_token, token)
           /\ _token[token].payment_mandate_id
                = last.pre[token].payment_mandate_id
           /\ verify_token(_token, token,
                           last.pre[token].payment_mandate_id).exc = NoExc
    /\ \A token \in DOMAIN _token :
         BoundIn(_token, token) => BoundIn(last.pre, token)

\* C38 witness: a bound token was verified with its mandate id, successfully,
\* while another token of the table is not bound.
C38_Witness ==
  /\ Verified
  /\ last.exc = NoExc
  /\ BoundIn(last.pre, last.token)
  /\ last.pmid = last.pre[last.token].payment_mandate_id
  /\ \E token \in DOMAIN _token : ~BoundIn(_token, token)

=============================================================================
